---------------------------- MODULE Spec2Model ----------------------------
(***************************************************************************)
(* License-gated update gateway of hyperfect-site.                         *)
(*                                                                         *)
(* Strings that the code inspects or rewrites character by character       *)
(* (license keys, hardware ids, app versions, query values, file names,    *)
(* environment values) are sequences of one-character strings;             *)
(* enumerations that the code only compares (plan names, subscription      *)
(* statuses, error texts) are TLA+ strings.  Timestamps are epoch          *)
(* milliseconds; 0 stands for the empty string the code stores when a      *)
(* timestamp is absent.                                                    *)
(***************************************************************************)
EXTENDS Integers, Sequences, FiniteSets, TLC

\* ------------------------------------------------------------------ bounds
MaxTicks == 2          \* number of clock advances explored
MaxResets == 2         \* cap on license_reset_count
MaxReleases == 3       \* releases in one listing of the release host

\* ------------------------------------------------------- string primitives
Min(a, b) == IF a < b THEN a ELSE b

UpperAlpha ==
  <<"A","B","C","D","E","F","G","H","I","J","K","L","M",
    "N","O","P","Q","R","S","T","U","V","W","X","Y","Z">>
LowerAlpha ==
  <<"a","b","c","d","e","f","g","h","i","j","k","l","m",
    "n","o","p","q","r","s","t","u","v","w","x","y","z">>

Range(f) == {f[i] : i \in DOMAIN f}
IndexIn(c, table) == CHOOSE i \in 1..Len(table) : table[i] = c

UpperToLower == [c \in Range(UpperAlpha) |-> LowerAlpha[IndexIn(c, UpperAlpha)]]
LowerToUpper == [c \in Range(LowerAlpha) |-> UpperAlpha[IndexIn(c, LowerAlpha)]]

toLowerCaseChar(c) == IF c \in DOMAIN UpperToLower THEN UpperToLower[c] ELSE c
toUpperCaseChar(c) == IF c \in DOMAIN LowerToUpper THEN LowerToUpper[c] ELSE c

toLowerCase(s) == [i \in 1..Len(s) |-> toLowerCaseChar(s[i])]
toUpperCase(s) == [i \in 1..Len(s) |-> toUpperCaseChar(s[i])]

IsWhitespace(c) == c \in {" ", "\t", "\n"}

\* value.replace(/\s+/g, ' ')
RECURSIVE CollapseWhitespace(_)
CollapseWhitespace(s) ==
  IF s = <<>> THEN <<>>
  ELSE IF IsWhitespace(Head(s))
    THEN IF Len(s) > 1 /\ IsWhitespace(s[2])
           THEN CollapseWhitespace(Tail(s))
           ELSE <<" ">> \o CollapseWhitespace(Tail(s))
    ELSE <<Head(s)>> \o CollapseWhitespace(Tail(s))

RECURSIVE TrimStart(_)
TrimStart(s) ==
  IF s # <<>> /\ IsWhitespace(Head(s)) THEN TrimStart(Tail(s)) ELSE s
RECURSIVE TrimEnd(_)
TrimEnd(s) ==
  IF s # <<>> /\ IsWhitespace(s[Len(s)])
    THEN TrimEnd(SubSeq(s, 1, Len(s) - 1)) ELSE s
Trim(s) == TrimEnd(TrimStart(s))

\* s.slice(0, n)
SliceTo(s, n) == SubSeq(s, 1, Min(n, Len(s)))
\* s.slice(-n)
SliceLast(s, n) == SubSeq(s, Len(s) - Min(n, Len(s)) + 1, Len(s))

cleanText(value, maxLen) == SliceTo(Trim(CollapseWhitespace(value)), maxLen)

normalizeLicenseKey(value) == toUpperCase(cleanText(value, 64))
normalizeHardwareId(value) == toLowerCase(cleanText(value, 128))

HexUpper == {"0","1","2","3","4","5","6","7","8","9","A","B","C","D","E","F"}
LicensePrefix == <<"N","E","X","U","S","-">>

\* /^NEXUS-[A-F0-9]{4}-[A-F0-9]{4}-[A-F0-9]{4}-[A-F0-9]{4}$/
LICENSE_PATTERN(k) ==
  /\ Len(k) = 25
  /\ SubSeq(k, 1, 6) = LicensePrefix
  /\ \A i \in 7..25 :
       IF i \in {11, 16, 21} THEN k[i] = "-" ELSE k[i] \in HexUpper

MACHINE_RESET_URL == "https://www.hyperfect.dev/license-dashboard"
ACTIVE_SUB_STATUSES == {"active", "trialing", "past_due"}

maskHardwareId(value) ==
  LET hardwareId == normalizeHardwareId(value) IN
  IF hardwareId = <<>> THEN <<>>
  ELSE IF Len(hardwareId) <= 10 THEN hardwareId
  ELSE SliceTo(hardwareId, 6) \o <<".", ".", ".">> \o SliceLast(hardwareId, 4)

mapPlanToTier(plan) ==
  IF plan = "subscription" THEN "pro"
  ELSE IF plan \in {"basic", "pro", "unlimited"} THEN plan
  ELSE "unlimited"


\* --------------------------------------------------------- request inputs
KeyGroupA == <<"A","1","B","2">>
KeyGroupB == <<"0","0","F","F">>
KeyGroupC == <<"C","3","D","4">>
MakeKey(g) == LicensePrefix \o g \o <<"-">> \o g \o <<"-">> \o g \o <<"-">> \o g

KeyOne == MakeKey(KeyGroupA)             \* stored on cus_1
KeyTwo == MakeKey(KeyGroupB)             \* stored on cus_2
KeyUnknown == MakeKey(KeyGroupC)         \* well formed, on no record
KeyOneTyped == <<" ">> \o toLowerCase(KeyOne)   \* KeyOne as a user may type it
KeyMalformed == <<"N","E","X","U","S","-","Z","Z">>

RawKeys == {KeyOne, KeyOneTyped, KeyTwo, KeyUnknown, KeyMalformed}

HwOne == <<"a","b">>
HwOneUpper == <<"A","B"," ">>            \* normalises to HwOne
\* longer than the ten characters maskHardwareId returns unmasked
HwTwo == <<"c","d","0","1","2","3","4","5","6","7","8","9">>
HwBlank == <<" ">>
RawHardwareIds == {<<>>, HwOne, HwOneUpper, HwTwo, HwBlank}

VersionOne == <<"1",".","0">>
RawAppVersions == {<<>>, VersionOne}

\* The requests explored: every combination for the key of cus_1, and for the
\* other keys (typed variant, other customer, unknown, malformed) a request
\* with and without a hardware id.
RawRequests ==
  [key : {KeyOne}, hardwareId : RawHardwareIds, appVersion : RawAppVersions,
   bindHardware : BOOLEAN]
  \cup
  [key : RawKeys \ {KeyOne}, hardwareId : {<<>>, HwOneUpper}, appVersion : {VersionOne},
   bindHardware : BOOLEAN]

CustomerIds == {"cus_1", "cus_2"}
\* the order in which stripe.customers.list returns the customers
CustomerListing == <<"cus_2", "cus_1">>

Procs == {"p1", "p2"}

\* ------------------------------------------------------- the record store
VARIABLES
  customers,       \* customer id -> [email, metadata]  (the Stripe customer objects)
  subscriptions,   \* customer id -> sequence of subscription statuses
  now,             \* Date.now()
  ticks,           \* number of clock advances so far
  calls,           \* process -> state of its validateLicenseRecord call
  reset,           \* state of the reset_machine request
  env,             \* process.env: variable name -> value
  releases,        \* the release host: its answer to the releases listing
  gw,              \* the updater request being handled by the download endpoint
  held             \* the download token the updater client holds

gatewayVars == <<env, releases, gw, held>>

NoCustomer == [id |-> "", email |-> "", metadata |-> [none |-> TRUE]]
NoResult == [status |-> 0]

EmptyMetadata(key, plan) ==
  [ license_key |-> key,
    license_created |-> "2025-01-01T00:00:00.000Z",
    plan |-> plan,
    license_revoked |-> "",
    license_hardware_id |-> <<>>,
    license_hardware_bound_at |-> 0,
    license_last_validation_at |-> 0,
    license_last_app_version |-> <<>>,
    license_reset_count |-> 0,
    license_last_reset_at |-> 0 ]

Customer(c) == [id |-> c, email |-> customers[c].email, metadata |-> customers[c].metadata]

\* listCustomersPaged + findCustomerByLicenseKey: the first listed customer whose
\* metadata.license_key equals the normalised key
findCustomerByLicenseKey(rawKey) ==
  LET key == normalizeLicenseKey(rawKey)
      hits == {i \in 1..Len(CustomerListing) :
                 customers[CustomerListing[i]].metadata.license_key = key}
  IN IF key = <<>> \/ ~LICENSE_PATTERN(key) THEN NoCustomer
     ELSE IF hits = {} THEN NoCustomer
     ELSE Customer(CustomerListing[CHOOSE i \in hits : \A j \in hits : i <= j])

\* any listed subscription counts, whatever its status
hasActiveSubscription_AnyListed(customerId) ==
  IF customerId = "" THEN FALSE ELSE subscriptions[customerId] # <<>>

hasActiveSubscription(customerId) ==
  IF customerId = "" THEN FALSE
  ELSE \E i \in 1..Len(subscriptions[customerId]) :
         subscriptions[customerId][i] \in ACTIVE_SUB_STATUSES

\* the key format left to the lookup
EarlyVerdict_NoFormatCheck(key, hardwareId, bindHardware) ==
  IF bindHardware /\ normalizeHardwareId(hardwareId) = <<>>
    THEN [status |-> 400, body |-> [valid |-> FALSE, error |-> "Hardware ID is required for activation"]]
  ELSE NoResult

\* ------------------------------------------------- validateLicenseRecord
\* lines 153-169: the checks made before any lookup
EarlyVerdict(key, hardwareId, bindHardware) ==
  LET normalizedKey == normalizeLicenseKey(key)
      normalizedHardware == normalizeHardwareId(hardwareId)
  IN IF normalizedKey = <<>> \/ ~LICENSE_PATTERN(normalizedKey)
       THEN [status |-> 400, body |-> [valid |-> FALSE, error |-> "Invalid license key format"]]
     ELSE IF bindHardware /\ normalizedHardware = <<>>
       THEN [status |-> 400, body |-> [valid |-> FALSE, error |-> "Hardware ID is required for activation"]]
     ELSE NoResult

\* the revocation flag never looked at
LookupVerdict_IgnoresRevoked(customer) ==
  IF customer = NoCustomer
    THEN [status |-> 404, body |-> [valid |-> FALSE, error |-> "License key not found"]]
  ELSE NoResult

\* a key on no record answered as a revoked license
LookupVerdict_NotFoundAsRevoked(customer) ==
  IF customer = NoCustomer
    THEN [status |-> 403, body |-> [valid |-> FALSE, error |-> "License has been revoked"]]
  ELSE IF customer.metadata.license_revoked = "true"
    THEN [status |-> 403, body |-> [valid |-> FALSE, error |-> "License has been revoked"]]
  ELSE NoResult

\* lines 172-185: the verdict decided by the customer that was read
LookupVerdict(customer) ==
  IF customer = NoCustomer
    THEN [status |-> 404, body |-> [valid |-> FALSE, error |-> "License key not found"]]
  ELSE IF customer.metadata.license_revoked = "true"
    THEN [status |-> 403, body |-> [valid |-> FALSE, error |-> "License has been revoked"]]
  ELSE NoResult

PlanOf(metadata) == IF metadata.plan = "" THEN "lifetime" ELSE metadata.plan

SubscriptionInactiveVerdict ==
  [status |-> 403, body |-> [valid |-> FALSE, error |-> "Subscription is no longer active"]]

\* lines 203-215
MachineMismatchVerdict(existingHardwareId) ==
  [status |-> 409,
   body |-> [valid |-> FALSE,
             code |-> "machine_mismatch",
             error |-> "License is already active on another machine. Reset machine activation from your license dashboard to move computers.",
             manage_url |-> MACHINE_RESET_URL,
             machine_locked |-> TRUE,
             hardware_id_masked |-> maskHardwareId(existingHardwareId)]]

\* a record that is bound conflicts with every id presented, its own included
IsMachineMismatch_AnyBound(metadata, hardwareId, bindHardware) ==
  /\ bindHardware /\ normalizeHardwareId(hardwareId) # <<>>
  /\ normalizeHardwareId(metadata.license_hardware_id) # <<>>

\* the conflict check left out
IsMachineMismatch_Skipped(metadata, hardwareId, bindHardware) == FALSE

\* the bound id compared with the id as presented, not with its normal form
IsMachineMismatch_ComparesRaw(metadata, hardwareId, bindHardware) ==
  /\ bindHardware /\ hardwareId # <<>>
  /\ metadata.license_hardware_id # <<>> /\ metadata.license_hardware_id # hardwareId

\* lines 202-203: the presented hardware id conflicts with the bound one
IsMachineMismatch(metadata, hardwareId, bindHardware) ==
  LET normalizedHardware == normalizeHardwareId(hardwareId)
      existingHardwareId == normalizeHardwareId(metadata.license_hardware_id)
  IN /\ bindHardware /\ normalizedHardware # <<>>
     /\ existingHardwareId # <<>> /\ existingHardwareId # normalizedHardware

\* a refresh that rewrites the binding with the id as presented
UpdatedMetadata_RewritesBinding(metadata, hardwareId, appVersion, nowIso) ==
  [metadata EXCEPT
     !.license_last_validation_at = nowIso,
     !.license_last_app_version =
        IF cleanText(appVersion, 64) # <<>> THEN cleanText(appVersion, 64)
        ELSE metadata.license_last_app_version,
     !.license_hardware_id = hardwareId,
     !.license_hardware_bound_at =
        IF metadata.license_hardware_id = <<>> THEN nowIso
        ELSE metadata.license_hardware_bound_at]

\* a first bind that records the id but not the time of binding
UpdatedMetadata_NoBoundAt(metadata, hardwareId, appVersion, nowIso) ==
  [metadata EXCEPT
     !.license_last_validation_at = nowIso,
     !.license_last_app_version =
        IF cleanText(appVersion, 64) # <<>> THEN cleanText(appVersion, 64)
        ELSE metadata.license_last_app_version,
     !.license_hardware_id =
        IF normalizeHardwareId(metadata.license_hardware_id) = <<>>
          THEN normalizeHardwareId(hardwareId)
          ELSE metadata.license_hardware_id]

\* lines 217-227: the metadata sent to stripe.customers.update
UpdatedMetadata(metadata, hardwareId, appVersion, nowIso) ==
  LET normalizedHardware == normalizeHardwareId(hardwareId)
      normalizedVersion == cleanText(appVersion, 64)
      existingHardwareId == normalizeHardwareId(metadata.license_hardware_id)
      refreshed ==
        [metadata EXCEPT
           !.license_last_validation_at = nowIso,
           !.license_last_app_version =
              IF normalizedVersion # <<>> THEN normalizedVersion
              ELSE metadata.license_last_app_version]
  IN IF existingHardwareId = <<>>
       THEN [refreshed EXCEPT !.license_hardware_id = normalizedHardware,
                              !.license_hardware_bound_at = nowIso]
       ELSE refreshed

\* lines 232-247
SuccessVerdict(customer, hardwareId, bindHardware) ==
  LET metadata == customer.metadata
      normalizedHardware == normalizeHardwareId(hardwareId)
      existingHardwareId == normalizeHardwareId(metadata.license_hardware_id)
      effectiveHardware ==
        IF bindHardware /\ normalizedHardware # <<>> /\ existingHardwareId = <<>>
          THEN normalizedHardware ELSE existingHardwareId
      plan == PlanOf(metadata)
      tier == mapPlanToTier(plan)
  IN [status |-> 200,
      body |-> [valid |-> TRUE,
                plan |-> plan,
                tier |-> tier,
                email |-> customer.email,
                activated |-> metadata.license_created,
                expires_at |-> IF tier = "unlimited" THEN "null" ELSE "",
                machine_locked |-> effectiveHardware # <<>>,
                hardware_id_masked |-> maskHardwareId(effectiveHardware),
                manage_url |-> MACHINE_RESET_URL],
      customer_id |-> customer.id]


\* ------------------------------------------------ the calls as processes
\* A call is suspended at each await: the customer listing (find), the
\* subscription listing (subscription) and stripe.customers.update (update).
\* ops is the set of record-store operations the call has issued so far.
IdleCall ==
  [pc |-> "idle", key |-> <<>>, hardwareId |-> <<>>, appVersion |-> <<>>,
   bindHardware |-> FALSE, customer |-> NoCustomer, nowIso |-> 0,
   result |-> NoResult, ops |-> {}]

\* the call issues a request to the record store
Issue(call, op) == [call EXCEPT !.ops = @ \cup {op}]

Finish(call, verdict) ==
  [call EXCEPT !.pc = "done", !.result = verdict, !.customer = NoCustomer, !.nowIso = 0]

\* a call that binds or refreshes whenever a hardware id is presented,
\* whatever its bindHardware flag
BindOrRefresh_IgnoresFlag(call, customer) ==
  IF IsMachineMismatch(customer.metadata, call.hardwareId, call.bindHardware)
    THEN Finish([call EXCEPT !.customer = customer],
                MachineMismatchVerdict(normalizeHardwareId(customer.metadata.license_hardware_id)))
  ELSE IF normalizeHardwareId(call.hardwareId) # <<>>
    THEN [call EXCEPT !.pc = "update", !.customer = customer, !.nowIso = now]
  ELSE Finish([call EXCEPT !.customer = customer, !.nowIso = now],
              SuccessVerdict(customer, call.hardwareId, call.bindHardware))

\* lines 198-230, run without suspension once the record (and, for a
\* subscription plan, the subscription listing) has been read
BindOrRefresh(call, customer) ==
  IF IsMachineMismatch(customer.metadata, call.hardwareId, call.bindHardware)
    THEN Finish([call EXCEPT !.customer = customer],
                MachineMismatchVerdict(normalizeHardwareId(customer.metadata.license_hardware_id)))
  ELSE IF call.bindHardware /\ normalizeHardwareId(call.hardwareId) # <<>>
    THEN [call EXCEPT !.pc = "update", !.customer = customer, !.nowIso = now]
  ELSE Finish([call EXCEPT !.customer = customer, !.nowIso = now],
              SuccessVerdict(customer, call.hardwareId, call.bindHardware))

\* lines 147-169: the call up to its first await
BeginCall(key, hardwareId, appVersion, bindHardware) ==
  LET call == [IdleCall EXCEPT !.key = key, !.hardwareId = hardwareId,
                               !.appVersion = appVersion,
                               !.bindHardware = bindHardware]
      early == EarlyVerdict(key, hardwareId, bindHardware)
  IN IF early # NoResult THEN Finish(call, early) ELSE [call EXCEPT !.pc = "find"]

\* the call made by keys/validate.js with the arguments as it prepares them
\* (lines 25-27); bindHardware is the function's parameter
ValidateCall(p, rawKey, rawHardwareId, rawAppVersion, bindHardware) ==
  /\ calls[p].pc = "idle"
  /\ calls' = [calls EXCEPT ![p] =
                 BeginCall(cleanText(rawKey, 80), cleanText(rawHardwareId, 160),
                           cleanText(rawAppVersion, 64), bindHardware)]
  /\ UNCHANGED <<customers, subscriptions, now, ticks, reset, gatewayVars>>

\* lines 171-196, up to the next await
ValidateFind(p) ==
  /\ calls[p].pc = "find"
  /\ LET call == Issue(calls[p], "customers.list")
         customer == findCustomerByLicenseKey(normalizeLicenseKey(call.key))
         verdict == LookupVerdict(customer)
     IN calls' = [calls EXCEPT ![p] =
                    IF verdict # NoResult THEN Finish(call, verdict)
                    ELSE IF PlanOf(customer.metadata) = "subscription"
                      THEN [call EXCEPT !.pc = "subscription", !.customer = customer]
                    ELSE BindOrRefresh(call, customer)]
  /\ UNCHANGED <<customers, subscriptions, now, ticks, reset, gatewayVars>>

\* lines 189-196
ValidateSubscription(p) ==
  /\ calls[p].pc = "subscription"
  /\ LET call == Issue(calls[p], "subscriptions.list")
     IN calls' = [calls EXCEPT ![p] =
                    IF ~hasActiveSubscription(call.customer.id)
                      THEN Finish(call, SubscriptionInactiveVerdict)
                    ELSE BindOrRefresh(call, call.customer)]
  /\ UNCHANGED <<customers, subscriptions, now, ticks, reset, gatewayVars>>

\* line 229 and the return of lines 232-247
ValidateUpdate(p) ==
  /\ calls[p].pc = "update"
  /\ LET call == Issue(calls[p], "customers.update")
         updatedMetadata == UpdatedMetadata(call.customer.metadata, call.hardwareId,
                                            call.appVersion, call.nowIso)
     IN /\ customers' = [customers EXCEPT ![call.customer.id].metadata = updatedMetadata]
        /\ calls' = [calls EXCEPT ![p] =
                       Finish(call, SuccessVerdict(call.customer, call.hardwareId,
                                                   call.bindHardware))]
  /\ UNCHANGED <<subscriptions, now, ticks, reset, gatewayVars>>

\* the caller takes the verdict; the process is free for its next call
ValidateReturn(p) ==
  /\ calls[p].pc = "done"
  /\ calls' = [calls EXCEPT ![p] = IdleCall]
  /\ UNCHANGED <<customers, subscriptions, now, ticks, reset, gatewayVars>>

\* ------------------------------------------------------- reset_machine
RESET_COOLDOWN_MINUTES == 10
ResetCooldownMs == RESET_COOLDOWN_MINUTES * 60 * 1000

NoSession == [cid |-> "", email |-> ""]
Sessions ==
  {NoSession, [cid |-> "cus_1", email |-> "one@example.com"],
   [cid |-> "cus_1", email |-> "old@example.com"]}

IdleReset == [pc |-> "idle", customer |-> NoCustomer, nowIso |-> 0, status |-> 0]

\* discord-bot.js lines 1212-1239: session check, retrieve, cooldown
ResetRetrieve(session) ==
  /\ reset.pc = "idle"
  /\ reset' =
       IF session = NoSession THEN [IdleReset EXCEPT !.pc = "done", !.status = 401]
       ELSE LET customer == Customer(session.cid)
                lastResetTs == customer.metadata.license_last_reset_at
            IN IF customer.email # session.email
                 THEN [IdleReset EXCEPT !.pc = "done", !.status = 401]
               ELSE IF lastResetTs # 0 /\ now - lastResetTs < ResetCooldownMs
                 THEN [IdleReset EXCEPT !.pc = "done", !.status = 429]
               ELSE [IdleReset EXCEPT !.pc = "update", !.customer = customer,
                                      !.nowIso = now]
  /\ UNCHANGED <<customers, subscriptions, now, ticks, calls, gatewayVars>>

\* discord-bot.js lines 1241-1252
ResetUpdate ==
  /\ reset.pc = "update"
  /\ reset.customer.metadata.license_reset_count < MaxResets
  /\ customers' = [customers EXCEPT ![reset.customer.id].metadata =
       [reset.customer.metadata EXCEPT
          !.license_hardware_id = <<>>,
          !.license_hardware_bound_at = 0,
          !.license_last_validation_at = 0,
          !.license_last_app_version = <<>>,
          !.license_reset_count = reset.customer.metadata.license_reset_count + 1,
          !.license_last_reset_at = reset.nowIso]]
  /\ reset' = [IdleReset EXCEPT !.pc = "done", !.status = 200]
  /\ UNCHANGED <<subscriptions, now, ticks, calls, gatewayVars>>

\* the response has been sent
ResetReturn ==
  /\ reset.pc = "done"
  /\ reset' = IdleReset
  /\ UNCHANGED <<customers, subscriptions, now, ticks, calls, gatewayVars>>

\* =========================================================================
\* The update gateway (_updates-utils.js, download.js)
\* =========================================================================
\* ------------------------------------------------------ string operations
\* the characters of a string literal
Chars(s) == [i \in 1..Len(s) |-> SubSeq(s, i, i)]

StartsWithAt(s, sub, i) ==
  /\ i >= 1 /\ i + Len(sub) - 1 <= Len(s)
  /\ SubSeq(s, i, i + Len(sub) - 1) = sub
includes(s, sub) == \E i \in 1..(Len(s) - Len(sub) + 1) : StartsWithAt(s, sub, i)
startsWith(s, sub) == StartsWithAt(s, sub, 1)
endsWith(s, sub) == StartsWithAt(s, sub, Len(s) - Len(sub) + 1)

\* index of the first character of s that is in set, 0 when there is none
IndexOfAny(s, set) ==
  LET hits == {i \in 1..Len(s) : s[i] \in set}
  IN IF hits = {} THEN 0 ELSE CHOOSE i \in hits : \A j \in hits : i <= j

\* s.split(sep) for a one-character separator
RECURSIVE split(_, _)
split(s, sep) ==
  LET i == IndexOfAny(s, {sep})
  IN IF i = 0 THEN <<s>>
     ELSE <<SubSeq(s, 1, i - 1)>> \o split(SubSeq(s, i + 1, Len(s)), sep)

IsNonEmpty(part) == part # <<>>
\* parts.filter(Boolean)
filterBoolean(parts) == SelectSeq(parts, IsNonEmpty)
\* the last element of a list of strings, '' for the empty list
LastOrEmpty(parts) == IF parts = <<>> THEN <<>> ELSE parts[Len(parts)]

Digits == Chars("0123456789")
IsDigit(c) == c \in Range(Digits)
DigitValue(c) == IndexIn(c, Digits) - 1

\* the number written by the longest prefix of digits of s, after acc
RECURSIVE DigitsValue(_, _)
DigitsValue(s, acc) ==
  IF s # <<>> /\ IsDigit(Head(s))
    THEN DigitsValue(Tail(s), acc * 10 + DigitValue(Head(s)))
    ELSE acc

NaN == [finite |-> FALSE, value |-> 0]

\* Number.parseInt(s, 10)
parseInt(s) ==
  LET t == TrimStart(s)
      negative == t # <<>> /\ Head(t) = "-"
      u == IF t # <<>> /\ Head(t) \in {"+", "-"} THEN Tail(t) ELSE t
  IN IF u = <<>> \/ ~IsDigit(Head(u)) THEN NaN
     ELSE [finite |-> TRUE,
           value |-> IF negative THEN 0 - DigitsValue(u, 0) ELSE DigitsValue(u, 0)]

parseNumeric(value, fallback) ==
  LET parsed == parseInt(value)
  IN IF ~parsed.finite \/ parsed.value < 0 THEN fallback ELSE parsed.value

\* String(n) for a natural number
RECURSIVE ToDecimal(_)
ToDecimal(n) ==
  IF n < 10 THEN <<Digits[n + 1]>>
  ELSE ToDecimal(n \div 10) \o <<Digits[(n % 10) + 1]>>

\* ----------------------------------------- decodeURIComponent and its inverse
\* the printable ASCII characters 0x20..0x5F and 0x61..0x7E, in code order
AsciiLow == Chars(" !\"#$%&'()*+,-./0123456789:;<=>?@ABCDEFGHIJKLMNOPQRSTUVWXYZ[\\]^_")
AsciiHigh == Chars("abcdefghijklmnopqrstuvwxyz{|}~")
HexDigits == Chars("0123456789ABCDEF")

IsHexDigit(c) == toUpperCaseChar(c) \in Range(HexDigits)
HexValue(c) == IndexIn(toUpperCaseChar(c), HexDigits) - 1

CodeOf(c) ==
  IF c \in Range(AsciiLow) THEN 31 + IndexIn(c, AsciiLow)
  ELSE IF c \in Range(AsciiHigh) THEN 96 + IndexIn(c, AsciiHigh)
  ELSE IF c = "\t" THEN 9 ELSE 10
\* the byte values that stand for a character of the model's alphabet
HasChar(v) == v \in (32..95) \cup (97..126) \cup {9, 10}
CharOf(v) ==
  IF v \in 32..95 THEN AsciiLow[v - 31]
  ELSE IF v \in 97..126 THEN AsciiHigh[v - 96]
  ELSE IF v = 9 THEN "\t" ELSE "\n"

\* decodeURIComponent(s): threw stands for the URIError raised on a % that is
\* not followed by two hexadecimal digits (or, in the model's alphabet, by the
\* code of a character outside it)
RECURSIVE decodeURIComponent(_)
decodeURIComponent(s) ==
  IF s = <<>> THEN [threw |-> FALSE, text |-> <<>>]
  ELSE IF Head(s) # "%"
    THEN LET rest == decodeURIComponent(Tail(s))
         IN [threw |-> rest.threw, text |-> <<Head(s)>> \o rest.text]
  ELSE IF \/ Len(s) < 3
          \/ ~IsHexDigit(s[2]) \/ ~IsHexDigit(s[3])
          \/ ~HasChar(16 * HexValue(s[2]) + HexValue(s[3]))
    THEN [threw |-> TRUE, text |-> <<>>]
  ELSE LET rest == decodeURIComponent(SubSeq(s, 4, Len(s)))
       IN [threw |-> rest.threw,
           text |-> <<CharOf(16 * HexValue(s[2]) + HexValue(s[3]))>> \o rest.text]

UriUnreserved ==
  Range(UpperAlpha) \cup Range(LowerAlpha) \cup Range(Digits)
    \cup {"-", "_", ".", "!", "~", "*", "'", "(", ")"}

PercentEncoded(c) ==
  <<"%", HexDigits[(CodeOf(c) \div 16) + 1], HexDigits[(CodeOf(c) % 16) + 1]>>

RECURSIVE encodeURIComponent(_)
encodeURIComponent(s) ==
  IF s = <<>> THEN <<>>
  ELSE (IF Head(s) \in UriUnreserved THEN <<Head(s)>> ELSE PercentEncoded(Head(s)))
         \o encodeURIComponent(Tail(s))

\* ------------------------------------------------------------ normalisers
Stable == Chars("stable")
Beta == Chars("beta")
Mac == Chars("mac")
Win == Chars("win")
Linux == Chars("linux")
X64 == Chars("x64")
Arm64 == Chars("arm64")
DotYml == Chars(".yml")

ALLOWED_CHANNELS == {Stable, Beta}
ALLOWED_PLATFORMS == {Mac, Win, Linux}
ALLOWED_ARCHES == {X64, Arm64}

normalizeChannel(value) ==
  LET channel == toLowerCase(cleanText(value, 16))
  IN IF channel \in ALLOWED_CHANNELS THEN channel ELSE Stable

normalizePlatform(value) ==
  LET platform == toLowerCase(cleanText(value, 16))
  IN IF platform \in ALLOWED_PLATFORMS THEN platform ELSE <<>>

normalizeArch(value) ==
  LET arch == toLowerCase(cleanText(value, 16))
  IN IF arch \in ALLOWED_ARCHES THEN arch ELSE <<>>

normalizeManifestName(value) ==
  LET raw == toLowerCase(cleanText(value, 200))
      parts == filterBoolean(split(raw, "/"))
      base == IF parts = <<>> THEN raw ELSE parts[Len(parts)]
  IN IF raw = <<>> THEN <<>>
     ELSE IF endsWith(base, DotYml) THEN base ELSE <<>>

\* ----------------------------------------------------------------- tokens
\* A token is the list of its '.'-separated segments.  The text of a segment
\* is kept as a value that says how it was made: base64url of a text, or the
\* base64url digest of an HMAC.  "" is the empty segment.  An HMAC is taken to
\* be collision free: two digests are equal only for equal secret and message.
NoToken == <<>>
EmptySegment == [empty |-> TRUE]
JSONstringify(value) == [json |-> value]
toBase64Url(input) == [b64 |-> input]
fromBase64Url(segment) ==
  IF DOMAIN segment = {"b64"} THEN segment.b64 ELSE [garbled |-> segment]
\* the digest does not depend on the message
createHmac_IgnoresMessage(secret, message) == [hmac |-> <<secret, <<>>>>]

createHmac(secret, message) == [hmac |-> <<secret, message>>]

signToken(payload, secret) ==
  LET body == toBase64Url(JSONstringify(payload))
      signature == createHmac(secret, body)
  IN <<body, signature>>

NoPayload == [null |-> TRUE]
\* JSON.parse accepts the text and yields an object
ParsesToObject(text) == DOMAIN text = {"json"} /\ DOMAIN text.json # {"scalar"}
\* payload.exp, with 0 for a payload that has none
ExpOf(payload) == IF "exp" \in DOMAIN payload THEN payload.exp ELSE 0

\* the token is refused at the millisecond of its exp already
IsExpired_AtExp(payload, dateNow) == ExpOf(payload) = 0 \/ dateNow >= ExpOf(payload)

\* a token that never expires
IsExpired_Never(payload, dateNow) == FALSE

\* line 94
IsExpired(payload, dateNow) == ExpOf(payload) = 0 \/ dateNow > ExpOf(payload)

\* the expiry of a signed payload is not looked at
PayloadOf_IgnoresExpiry(text, dateNow) ==
  IF ~ParsesToObject(text) THEN NoPayload ELSE text.json

\* lines 92-98, on the decoded body
PayloadOf(text, dateNow) ==
  IF ~ParsesToObject(text) THEN NoPayload
  ELSE IF IsExpired(text.json, dateNow) THEN NoPayload
  ELSE text.json

\* ------------------------------------------------------- process.env reads
\* process.env[name] || '' : an unset variable reads as the empty string
ProcessEnv(name) == IF name \in DOMAIN env THEN env[name] ELSE <<>>
\* a || b on strings
OrElse(a, b) == IF a # <<>> THEN a ELSE b

getUpdateSecret ==
  Trim(OrElse(ProcessEnv(Chars("UPDATE_LINK_SECRET")),
       OrElse(ProcessEnv(Chars("LICENSE_PORTAL_SECRET")),
       OrElse(ProcessEnv(Chars("ADMIN_SECRET")),
              ProcessEnv(Chars("STRIPE_SECRET_KEY"))))))

Underscore == <<"_">>
UpdatePrefix == Chars("UPDATE_")

\* the arch-optional variable read before the arch-specific one
getArtifactEnv_ArchOptionalFirst(channel, platform, arch, suffix) ==
  LET keyWithArch == UpdatePrefix \o toUpperCase(channel) \o Underscore
                       \o toUpperCase(platform) \o Underscore
                       \o toUpperCase(arch) \o Underscore \o suffix
      keyWithoutArch == UpdatePrefix \o toUpperCase(channel) \o Underscore
                          \o toUpperCase(platform) \o Underscore \o suffix
  IN Trim(OrElse(ProcessEnv(keyWithoutArch), ProcessEnv(keyWithArch)))

getArtifactEnv(channel, platform, arch, suffix) ==
  LET keyWithArch == UpdatePrefix \o toUpperCase(channel) \o Underscore
                       \o toUpperCase(platform) \o Underscore
                       \o toUpperCase(arch) \o Underscore \o suffix
      keyWithoutArch == UpdatePrefix \o toUpperCase(channel) \o Underscore
                          \o toUpperCase(platform) \o Underscore \o suffix
  IN Trim(OrElse(ProcessEnv(keyWithArch), ProcessEnv(keyWithoutArch)))

UrlSchemes == {Chars("https://"), Chars("http://")}
UrlDelimiters == {"/", "?", "#"}
\* the characters new URL() percent-encodes in a path
UrlPathEncoded == {" ", "\"", "<", ">", "{", "}"}

\* what follows the scheme of an absolute http(s) URL, '' for any other string
AfterScheme(url) ==
  IF \E p \in UrlSchemes : startsWith(url, p)
    THEN LET p == CHOOSE q \in UrlSchemes : startsWith(url, q)
         IN SubSeq(url, Len(p) + 1, Len(url))
    ELSE <<>>
\* new URL(url) does not throw: a scheme followed by a host
UrlParses(url) == AfterScheme(url) # <<>> /\ Head(AfterScheme(url)) \notin UrlDelimiters

RECURSIVE EncodePath(_)
EncodePath(s) ==
  IF s = <<>> THEN <<>>
  ELSE (IF Head(s) \in UrlPathEncoded THEN PercentEncoded(Head(s)) ELSE <<Head(s)>>)
         \o EncodePath(Tail(s))

\* new URL(url).pathname
UrlPathname(url) ==
  LET rest == AfterScheme(url)
      hostEnd == IndexOfAny(rest, UrlDelimiters)
      fromPath == SubSeq(rest, hostEnd, Len(rest))
      pathEnd == IndexOfAny(fromPath, {"?", "#"})
  IN IF hostEnd = 0 \/ rest[hostEnd] # "/" THEN <<"/">>
     ELSE EncodePath(IF pathEnd = 0 THEN fromPath ELSE SubSeq(fromPath, 1, pathEnd - 1))

getFileNameFromUrl(url) ==
  IF UrlParses(url)
    THEN LastOrEmpty(filterBoolean(split(UrlPathname(url), "/")))
    ELSE LastOrEmpty(filterBoolean(split(split(url, "?")[1], "/")))

NoConfig == [source |-> "none"]

getEnvUpdateConfig(channel, platform, arch, dateNow) ==
  LET normalizedChannel == normalizeChannel(channel)
      normalizedPlatform == normalizePlatform(platform)
      normalizedArch == normalizeArch(arch)
      read(suffix) == getArtifactEnv(normalizedChannel, normalizedPlatform, normalizedArch,
                                     Chars(suffix))
      version == read("VERSION")
      fileUrl == read("FILE_URL")
      sha512 == read("SHA512")
      size == parseNumeric(read("SIZE"), 0)
      releaseDateRaw == read("RELEASE_DATE")
      releaseNotes == read("RELEASE_NOTES")
      fileNameEnv == read("FILE_NAME")
      fileName == OrElse(fileNameEnv, getFileNameFromUrl(fileUrl))
  IN IF normalizedPlatform = <<>> \/ normalizedArch = <<>> THEN NoConfig
     ELSE IF version = <<>> \/ fileUrl = <<>> \/ sha512 = <<>> \/ size = 0 THEN NoConfig
     ELSE IF fileName = <<>> THEN NoConfig
     ELSE [source |-> "env",
           channel |-> normalizedChannel,
           platform |-> normalizedPlatform,
           arch |-> normalizedArch,
           version |-> version,
           fileUrl |-> fileUrl,
           sha512 |-> sha512,
           size |-> size,
           releaseDate |-> IF releaseDateRaw = <<>> THEN [at |-> dateNow]
                           ELSE [text |-> releaseDateRaw],
           releaseNotes |-> releaseNotes,
           fileName |-> fileName]

getGitHubRepoConfig ==
  [owner |-> cleanText(OrElse(ProcessEnv(Chars("UPDATE_GH_OWNER")), Chars("Sacfu")), 100),
   repo |-> cleanText(OrElse(ProcessEnv(Chars("UPDATE_GH_REPO")), Chars("nexus")), 100),
   token |-> cleanText(OrElse(ProcessEnv(Chars("UPDATE_GH_TOKEN")),
                              ProcessEnv(Chars("GITHUB_RELEASE_TOKEN"))), 500)]

\* every configured value is taken for auto
getUpdatesSourceMode_AlwaysAuto == "auto"

getUpdatesSourceMode ==
  LET mode == toLowerCase(cleanText(OrElse(ProcessEnv(Chars("UPDATE_SOURCE")), Chars("github")), 16))
  IN IF mode = Chars("env") THEN "env"
     ELSE IF mode = Chars("github") THEN "github"
     ELSE "auto"

\* -------------------------------------------------- release-host resolution
\* A date string is [at |-> ms] when it is the ISO text of an instant and
\* [text |-> s] otherwise; Date.parse yields NaN for the latter.
EmptyDate == [text |-> <<>>]
DateParse(d) == IF "at" \in DOMAIN d THEN [finite |-> TRUE, value |-> d.at] ELSE NaN
IsEmptyDate(d) == d = EmptyDate

NoAsset == [id |-> 0, name |-> <<>>]
\* the body of an asset that is not a manifest, or an empty manifest body
NoText == [empty |-> TRUE]
NoBlock == [url |-> <<>>, sha512 |-> <<>>, size |-> <<>>]

IsVisible(release) == ~release.draft
IsPrerelease(release) == release.prerelease
IsNotPrerelease(release) == ~release.prerelease

listReleasesForChannel(listing, channel) ==
  LET visible == SelectSeq(listing, IsVisible)
  IN IF channel = Beta
       THEN SelectSeq(visible, IsPrerelease) \o SelectSeq(visible, IsNotPrerelease)
       ELSE SelectSeq(visible, IsNotPrerelease) \o SelectSeq(visible, IsPrerelease)

\* new Map(assets.map(a => [name.toLowerCase(), a])).get(candidate.toLowerCase()):
\* of several assets with the same name the Map keeps the last
firstAssetByNames(assets, candidate) ==
  LET hits == {i \in 1..Len(assets) : toLowerCase(assets[i].name) = toLowerCase(candidate)}
  IN IF hits = {} THEN NoAsset
     ELSE assets[CHOOSE i \in hits : \A j \in hits : j <= i]

\* String(asset.id || '') || String(asset.name || '')
AssetKey(asset) == IF asset.id # 0 THEN ToDecimal(asset.id) ELSE asset.name

pushAsset(ordered, asset) ==
  IF asset = NoAsset \/ AssetKey(asset) = <<>> THEN ordered
  ELSE IF \E i \in 1..Len(ordered) : AssetKey(ordered[i]) = AssetKey(asset) THEN ordered
  ELSE Append(ordered, asset)

RECURSIVE pushAll(_, _)
pushAll(ordered, assets) ==
  IF assets = <<>> THEN ordered
  ELSE pushAll(pushAsset(ordered, Head(assets)), Tail(assets))

pushByNames(ordered, manifests, names) ==
  pushAll(ordered, [i \in 1..Len(names) |-> firstAssetByNames(manifests, names[i])])

\* /alt.*alt.* ... .*\.yml$/ : one alternative of each group in turn, each
\* after the end of the one before, and ".yml" at the end after the last
RECURSIVE MatchGroups(_, _, _)
MatchGroups(s, groups, from) ==
  IF groups = <<>> THEN from <= Len(s) - 3 /\ endsWith(s, DotYml)
  ELSE \E alt \in Head(groups) : \E p \in from..Len(s) :
         StartsWithAt(s, alt, p) /\ MatchGroups(s, Tail(groups), p + Len(alt))

BetaOrLatest == {Chars("beta"), Chars("latest")}
\* /(beta|latest).*mac.*(arm64|universal).*\.yml$/i
IsMacArmManifest(asset) ==
  MatchGroups(toLowerCase(asset.name),
              <<BetaOrLatest, {Mac}, {Arm64, Chars("universal")}>>, 1)
\* /(beta|latest).*mac.*x64.*\.yml$/i
IsMacX64Manifest(asset) ==
  MatchGroups(toLowerCase(asset.name), <<BetaOrLatest, {Mac}, {X64}>>, 1)
\* /(beta|latest).*mac.*\.yml$/i
IsMacManifest(asset) == MatchGroups(toLowerCase(asset.name), <<BetaOrLatest, {Mac}>>, 1)
\* /(beta|latest).*linux.*\.yml$/i
IsLinuxManifest(asset) == MatchGroups(toLowerCase(asset.name), <<BetaOrLatest, {Linux}>>, 1)
\* /^(beta|latest)(?!.*(mac|linux)).*\.yml$/i
IsWinManifest(asset) ==
  LET name == toLowerCase(asset.name)
  IN \E alt \in BetaOrLatest :
       /\ startsWith(name, alt)
       /\ ~includes(SubSeq(name, Len(alt) + 1, Len(name)), Mac)
       /\ ~includes(SubSeq(name, Len(alt) + 1, Len(name)), Linux)
       /\ Len(alt) + 1 <= Len(name) - 3 /\ endsWith(name, DotYml)
\* /\.yml$/i
IsYml(asset) == endsWith(toLowerCase(asset.name), DotYml)

\* the x64 manifest is an alias of every hint
RequestedAliases_WithX64(requested, channel, platform, arch) ==
  <<requested, Chars("beta-mac-x64.yml")>>

\* the names pushRequestedAliases tries after the requested one
RequestedAliases(requested, channel, platform, arch) ==
  LET named(s) == requested = Chars(s)
      forArch(armNames, x64Names) == IF arch = Arm64 THEN armNames ELSE x64Names
  IN <<requested>> \o
     (IF platform = Mac THEN
        IF named("beta-mac.yml") THEN
          forArch(<<Chars("beta-mac-arm64.yml"), Chars("latest-mac-arm64.yml"), Chars("latest-mac.yml")>>,
                  <<Chars("beta-mac-x64.yml"), Chars("latest-mac-x64.yml"), Chars("latest-mac.yml")>>)
        ELSE IF named("latest-mac.yml") THEN
          forArch(<<Chars("latest-mac-arm64.yml"), Chars("beta-mac-arm64.yml"), Chars("beta-mac.yml")>>,
                  <<Chars("latest-mac-x64.yml"), Chars("beta-mac-x64.yml"), Chars("beta-mac.yml")>>)
        ELSE IF named("latest-mac-beta.yml") THEN
          forArch(<<Chars("latest-mac-arm64-beta.yml"), Chars("beta-mac-arm64.yml"), Chars("beta-mac.yml")>>,
                  <<Chars("latest-mac-x64-beta.yml"), Chars("beta-mac-x64.yml"), Chars("beta-mac.yml")>>)
        ELSE <<>>
      ELSE IF platform = Linux THEN
        (IF named("latest-linux.yml")
           THEN <<Chars("latest-linux-") \o arch \o DotYml, Chars("beta-linux-") \o arch \o DotYml>>
           ELSE <<>>) \o
        (IF named("beta-linux.yml")
           THEN <<Chars("beta-linux-") \o arch \o DotYml, Chars("latest-linux-") \o arch \o DotYml>>
           ELSE <<>>)
      ELSE IF platform = Win THEN
        (IF named("beta.yml") THEN <<Chars("latest.yml")>> ELSE <<>>) \o
        (IF named("latest.yml") /\ channel = Beta THEN <<Chars("beta.yml")>> ELSE <<>>)
      ELSE <<>>)

MacArmNames ==
  <<Chars("beta-mac-arm64.yml"), Chars("beta-mac.yml"), Chars("latest-mac-arm64.yml"),
    Chars("latest-mac-arm64-beta.yml"), Chars("latest-mac-beta-arm64.yml"),
    Chars("latest-mac-universal.yml"), Chars("latest-mac-universal-beta.yml")>>
MacX64Names ==
  <<Chars("beta-mac-x64.yml"), Chars("beta-mac.yml"), Chars("latest-mac-x64.yml"),
    Chars("latest-mac.yml"), Chars("latest-mac-beta.yml")>>
MacNames == <<Chars("beta-mac.yml"), Chars("latest-mac-beta.yml"), Chars("latest-mac.yml")>>
LinuxNames(arch) ==
  <<Chars("beta-linux-") \o arch \o DotYml, Chars("beta-linux.yml"),
    Chars("latest-linux-") \o arch \o DotYml, Chars("latest-linux.yml"), Chars("latest.yml")>>
WinBetaNames == <<Chars("beta.yml"), Chars("latest-beta.yml")>>
WinNames == <<Chars("latest.yml")>>

listManifestAssets(assets, channel, platform, arch, requestedManifest) ==
  LET manifests == SelectSeq(assets, IsYml)
      requested == normalizeManifestName(requestedManifest)
      byPlatform ==
        IF platform = Mac THEN
          LET first ==
                IF arch = Arm64
                  THEN pushAll(pushByNames(<<>>, manifests, MacArmNames),
                               SelectSeq(manifests, IsMacArmManifest))
                  ELSE pushAll(pushByNames(<<>>, manifests, MacX64Names),
                               SelectSeq(manifests, IsMacX64Manifest))
          IN pushAll(pushByNames(first, manifests, MacNames),
                     SelectSeq(manifests, IsMacManifest))
        ELSE IF platform = Linux THEN
          pushAll(pushByNames(<<>>, manifests, LinuxNames(arch)),
                  SelectSeq(manifests, IsLinuxManifest))
        ELSE
          pushAll(pushByNames(pushByNames(<<>>, manifests,
                                          IF channel = Beta THEN WinBetaNames ELSE <<>>),
                              manifests, WinNames),
                  SelectSeq(manifests, IsWinManifest))
  IN IF requested # <<>>
       THEN pushByNames(<<>>, manifests,
                        RequestedAliases(requested, channel, platform, arch))
       ELSE pushAll(byPlatform, manifests)

\* every artifact passes
isArtifactCompatible_Always(fileName, platform, arch) == TRUE

isArtifactCompatible(fileName, platform, arch) ==
  LET name == toLowerCase(fileName)
      has(s) == includes(name, Chars(s))
      ends(s) == endsWith(name, Chars(s))
      isMacLike == has("mac") \/ has("darwin") \/ ends(".dmg")
      isLinuxLike == has("linux") \/ ends(".appimage") \/ ends(".deb")
      isWinLike == has("win") \/ has("windows") \/ ends(".exe") \/ has("nsis")
      hasArm == has("arm64") \/ has("aarch64")
      hasX64 == has("x64") \/ has("amd64")
      hasUniversal == has("universal")
  IN IF name = <<>> THEN FALSE
     ELSE IF platform = Mac /\ ~isMacLike THEN FALSE
     ELSE IF platform = Linux /\ ~isLinuxLike THEN FALSE
     ELSE IF platform = Win /\ (~isWinLike \/ isMacLike \/ isLinuxLike) THEN FALSE
     ELSE IF arch = Arm64 THEN ~(hasX64 /\ ~hasUniversal)
     ELSE IF arch = X64 THEN ~(hasArm /\ ~hasUniversal)
     ELSE TRUE

NoSemver == [raw |-> <<>>, core |-> <<>>, prerelease |-> <<>>]

IsFinite(parsed) == parsed.finite

parseLooseSemver(version) ==
  LET raw == cleanText(version, 80)
      pieces == split(raw, "-")
      core == pieces[1]
      prerelease == IF Len(pieces) >= 2 THEN pieces[2] ELSE <<>>
      parts == split(core, ".")
      parsed == SelectSeq([i \in 1..Len(parts) |-> parseInt(parts[i])], IsFinite)
      segments == [i \in 1..Len(parsed) |-> parsed[i].value]
      padded == segments \o <<0, 0, 0>>
  IN IF raw = <<>> THEN NoSemver
     ELSE IF segments = <<>> THEN NoSemver
     ELSE [raw |-> raw, core |-> SubSeq(padded, 1, 3), prerelease |-> prerelease]

\* the order in which String.prototype.localeCompare ranks the characters of
\* version strings: punctuation, digits, letters (case apart)
CollationOrder == Chars(" _-,;:!?.'\"()[]{}@*/\\&#%^+<=>|~$0123456789abcdefghijklmnopqrstuvwxyz")
Rank(c) == IndexIn(toLowerCaseChar(c), CollationOrder)

RECURSIVE PrimaryCompare(_, _)
PrimaryCompare(a, b) ==
  IF a = <<>> /\ b = <<>> THEN 0
  ELSE IF a = <<>> THEN -1
  ELSE IF b = <<>> THEN 1
  ELSE IF Rank(Head(a)) < Rank(Head(b)) THEN -1
  ELSE IF Rank(Head(a)) > Rank(Head(b)) THEN 1
  ELSE PrimaryCompare(Tail(a), Tail(b))

\* equal up to case: the first difference decides, lower case first
RECURSIVE CaseCompare(_, _)
CaseCompare(a, b) ==
  IF a = <<>> THEN 0
  ELSE IF Head(a) = Head(b) THEN CaseCompare(Tail(a), Tail(b))
  ELSE IF Head(a) \in Range(LowerAlpha) THEN -1 ELSE 1

localeCompare(a, b) ==
  IF PrimaryCompare(a, b) # 0 THEN PrimaryCompare(a, b) ELSE CaseCompare(a, b)

\* lines 425-440, on the two parsed versions
CompareParsed(pa, pb) ==
  LET differ == {idx \in 1..3 : pa.core[idx] # pb.core[idx]}
      first == CHOOSE idx \in differ : \A other \in differ : idx <= other
  IN IF pa = NoSemver /\ pb = NoSemver THEN 0
     ELSE IF pa = NoSemver THEN -1
     ELSE IF pb = NoSemver THEN 1
     ELSE IF differ # {} THEN (IF pa.core[first] > pb.core[first] THEN 1 ELSE -1)
     ELSE IF pa.prerelease = <<>> /\ pb.prerelease # <<>> THEN 1
     ELSE IF pa.prerelease # <<>> /\ pb.prerelease = <<>> THEN -1
     ELSE IF pa.prerelease # <<>> /\ pb.prerelease # <<>>
       THEN localeCompare(pa.prerelease, pb.prerelease)
     ELSE 0

compareLooseSemver(a, b) == CompareParsed(parseLooseSemver(a), parseLooseSemver(b))

NoManifest == [version |-> <<>>]

\* parseManifestYml applied to a manifest body.  The body is kept as what the
\* regular expressions of lines 447-453 capture from it: the version,
\* releaseDate, path and releaseNotes lines, the first "- url / sha512 / size"
\* block, and the last sha512 line.
parseManifestYml(text, dateNow) ==
  IF text = NoText THEN NoManifest
  ELSE
  LET version == cleanText(text.version, 80)
      releaseDate == IF IsEmptyDate(text.releaseDate) THEN [at |-> dateNow]
                     ELSE text.releaseDate
      fileUrl == cleanText(OrElse(text.fileBlock.url, text.path), 400)
      sha512 == cleanText(OrElse(text.fileBlock.sha512, text.lastSha), 3000)
      size == parseNumeric(OrElse(text.fileBlock.size, <<"0">>), 0)
      releaseNotes == cleanText(text.releaseNotes, 2000)
      fileName == getFileNameFromUrl(fileUrl)
  IN IF version = <<>> \/ fileUrl = <<>> \/ sha512 = <<>> \/ size = 0 \/ fileName = <<>>
       THEN NoManifest
     ELSE [version |-> version,
           releaseDate |-> releaseDate,
           fileUrl |-> fileUrl,
           sha512 |-> sha512,
           size |-> size,
           releaseNotes |-> releaseNotes,
           fileName |-> fileName]

\* threw: decodeURIComponent raised while looking for the decoded name
findAssetByName(assets, fileName) ==
  LET normalized == toLowerCase(fileName)
      direct == {i \in 1..Len(assets) : toLowerCase(assets[i].name) = normalized}
      decoded == decodeURIComponent(normalized)
      byDecoded == {i \in 1..Len(assets) : toLowerCase(assets[i].name) = decoded.text}
      firstOf(hits) == assets[CHOOSE i \in hits : \A j \in hits : i <= j]
  IN IF normalized = <<>> THEN [threw |-> FALSE, asset |-> NoAsset]
     ELSE IF direct # {} THEN [threw |-> FALSE, asset |-> firstOf(direct)]
     ELSE IF decoded.threw THEN [threw |-> TRUE, asset |-> NoAsset]
     ELSE IF byDecoded # {} THEN [threw |-> FALSE, asset |-> firstOf(byDecoded)]
     ELSE [threw |-> FALSE, asset |-> NoAsset]

\* one release paired with each of its manifest candidates
VisitsOf(release, assets) ==
  [i \in 1..Len(assets) |-> [release |-> release, manifestAsset |-> assets[i]]]

\* the (release, manifest asset) pairs in the order the loops of lines
\* 520-541 visit them
RECURSIVE ManifestVisits(_, _, _, _, _)
ManifestVisits(candidates, channel, platform, arch, manifest) ==
  IF candidates = <<>> THEN <<>>
  ELSE VisitsOf(Head(candidates),
                listManifestAssets(Head(candidates).assets, channel, platform, arch, manifest))
         \o ManifestVisits(Tail(candidates), channel, platform, arch, manifest)

\* lines 602-618
GitHubConfig(release, parsed, binaryAsset, gh, channel, platform, arch) ==
  [source |-> "github",
   channel |-> channel,
   platform |-> platform,
   arch |-> arch,
   version |-> parsed.version,
   releaseDate |-> parsed.releaseDate,
   releaseNotes |-> OrElse(parsed.releaseNotes, cleanText(release.body, 2000)),
   sha512 |-> parsed.sha512,
   size |-> parsed.size,
   fileName |-> parsed.fileName,
   owner |-> gh.owner,
   repo |-> gh.repo,
   releaseTag |-> cleanText(release.tag_name, 120),
   binaryAssetId |-> binaryAsset.id,
   binaryAssetName |-> cleanText(OrElse(binaryAsset.name, parsed.fileName), 200)]

\* a manifest gives a configuration whether or not its release carries the binary
ConfigOfParsed_NoPresenceCheck(release, parsed, found, channel, platform, arch) ==
  IF found.threw THEN [kind |-> "threw"]
  ELSE [kind |-> "config",
        config |-> GitHubConfig(release, parsed, found.asset, getGitHubRepoConfig,
                                channel, platform, arch)]

\* lines 588-618: the binary asset of a parsed, compatible manifest
ConfigOfParsed(release, parsed, found, channel, platform, arch) ==
  IF found.threw THEN [kind |-> "threw"]
  ELSE IF found.asset = NoAsset THEN [kind |-> "skip"]
  ELSE [kind |-> "config",
        config |-> GitHubConfig(release, parsed, found.asset, getGitHubRepoConfig,
                                channel, platform, arch)]

\* lines 564-587: the manifest body that was fetched
ConfigOfManifest(release, parsed, channel, platform, arch) ==
  IF parsed = NoManifest THEN [kind |-> "skip"]
  ELSE IF ~isArtifactCompatible(parsed.fileName, platform, arch) THEN [kind |-> "skip"]
  ELSE ConfigOfParsed(release, parsed, findAssetByName(release.assets, parsed.fileName),
                      channel, platform, arch)

\* lines 542-618: what one visit contributes
CandidateConfig(visit, channel, platform, arch, dateNow) ==
  IF visit.manifestAsset.fetchStatus # 200 THEN [kind |-> "skip"]
  ELSE ConfigOfManifest(visit.release, parseManifestYml(visit.manifestAsset.text, dateNow),
                        channel, platform, arch)

\* the first candidate is kept whatever the later ones advertise
ReplacesOnCompare_KeepsFirst(cmp, candidatePublishedAt, bestPublishedAt) == FALSE

\* lines 634-648, given the comparison of the versions
ReplacesOnCompare(cmp, candidatePublishedAt, bestPublishedAt) ==
  IF cmp > 0 THEN TRUE
  ELSE IF cmp < 0 THEN FALSE
  ELSE /\ candidatePublishedAt.finite /\ bestPublishedAt.finite
       /\ candidatePublishedAt.value > bestPublishedAt.value

\* lines 629-648: the candidate replaces the best so far
ReplacesBest(candidate, release, bestConfig) ==
  IF bestConfig = NoConfig THEN TRUE
  ELSE ReplacesOnCompare(compareLooseSemver(candidate.version, bestConfig.version),
                         DateParse(release.published_at),
                         DateParse(bestConfig.releaseDate))

\* the best configuration after one more candidate
BestAfter(candidate, release, bestConfig) ==
  IF candidate.kind = "skip" THEN bestConfig
  ELSE IF ReplacesBest(candidate.config, release, bestConfig) THEN candidate.config
  ELSE bestConfig

RECURSIVE ScanVisits(_, _, _, _, _, _)
\* lines 519-665: the loops, from the visits that remain and the best so far
ScanFrom(candidate, visits, bestConfig, channel, platform, arch, dateNow) ==
  IF candidate.kind = "threw" THEN NoConfig
  ELSE ScanVisits(Tail(visits), BestAfter(candidate, Head(visits).release, bestConfig),
                  channel, platform, arch, dateNow)

ScanVisits(visits, bestConfig, channel, platform, arch, dateNow) ==
  IF visits = <<>> THEN bestConfig
  ELSE ScanFrom(CandidateConfig(Head(visits), channel, platform, arch, dateNow),
                visits, bestConfig, channel, platform, arch, dateNow)

\* releases is the answer of the release host to the listing request:
\* [ok |-> FALSE] when it is unreachable or answers non-2xx
getGitHubUpdateConfig(channel, platform, arch, requestedManifest, dateNow) ==
  LET normalizedChannel == normalizeChannel(channel)
      normalizedPlatform == normalizePlatform(platform)
      normalizedArch == normalizeArch(arch)
      normalizedManifest == normalizeManifestName(requestedManifest)
      gh == getGitHubRepoConfig
      releaseCandidates == listReleasesForChannel(releases.listing, normalizedChannel)
  IN IF normalizedPlatform = <<>> \/ normalizedArch = <<>> THEN NoConfig
     ELSE IF gh.owner = <<>> \/ gh.repo = <<>> THEN NoConfig
     ELSE IF ~releases.ok THEN NoConfig
     ELSE ScanVisits(ManifestVisits(releaseCandidates, normalizedChannel, normalizedPlatform,
                                    normalizedArch, normalizedManifest),
                     NoConfig, normalizedChannel, normalizedPlatform, normalizedArch, dateNow)

\* mode auto without the static fallback
ConfigForMode_NoFallback(mode, githubConfig, channel, platform, arch, dateNow) ==
  IF mode = "env" THEN getEnvUpdateConfig(channel, platform, arch, dateNow)
  ELSE githubConfig

\* lines 691-710, given the mode and the release-host result
ConfigForMode(mode, githubConfig, channel, platform, arch, dateNow) ==
  IF mode = "env" THEN getEnvUpdateConfig(channel, platform, arch, dateNow)
  ELSE IF githubConfig # NoConfig THEN githubConfig
  ELSE IF mode = "github" THEN NoConfig
  ELSE getEnvUpdateConfig(channel, platform, arch, dateNow)

getUpdateConfig(channel, platform, arch, requestedManifest, dateNow) ==
  ConfigForMode(getUpdatesSourceMode,
                getGitHubUpdateConfig(channel, platform, arch,
                                      normalizeManifestName(requestedManifest), dateNow),
                channel, platform, arch, dateNow)

\* --------------------------------------------------------- request handling
\* A request is [method, headers, query].  headers holds the four headers the
\* gateway reads; query.manifest is the list of the values of the manifest
\* parameter (empty when it is absent, one element when it is given once);
\* query.t is a token.  An absent header or parameter is the empty string.
NoHeaders ==
  [authorization |-> <<>>, licenseKey |-> <<>>, hardwareId |-> <<>>, appVersion |-> <<>>]
NoQuery ==
  [mode |-> <<>>, channel |-> <<>>, platform |-> <<>>, arch |-> <<>>,
   manifest |-> <<>>, debug |-> <<>>, artifact |-> <<>>, t |-> NoToken]
NoRequest == [method |-> "", headers |-> NoHeaders, query |-> NoQuery]

Json(status, body) == [status |-> status, kind |-> "json", body |-> body]
Redirect(location) == [status |-> 302, kind |-> "redirect", body |-> [location |-> location]]
NoBody == [none |-> TRUE]
NoResponse == [status |-> 0, kind |-> "", body |-> NoBody]

extractUpdaterAuth(headers) ==
  LET auth == Trim(headers.authorization)
      bearer == IF startsWith(toLowerCase(auth), Chars("bearer "))
                  THEN Trim(SubSeq(auth, 8, Len(auth))) ELSE <<>>
  IN [key |-> cleanText(OrElse(headers.licenseKey, bearer), 120),
      hardwareId |-> cleanText(headers.hardwareId, 160),
      appVersion |-> cleanText(headers.appVersion, 64)]

\* requireValidUpdaterLicense, lines 790-799
HasUpdaterCredentials(headers) ==
  extractUpdaterAuth(headers).key # <<>> /\ extractUpdaterAuth(headers).hardwareId # <<>>

MissingCredentials ==
  [ok |-> FALSE, status |-> 401,
   body |-> [valid |-> FALSE,
             error |-> "Missing updater credentials (license key and hardware ID required)"]]

\* the validator's answer lets no update through
LicenseRefused_Never(result) == FALSE

\* requireValidUpdaterLicense, line 808
LicenseRefused(result) == result.status # 200 \/ ~result.body.valid

\* the refusal reported with a status and body of the gateway's own
AuthOutcome_OwnBody(result) ==
  IF LicenseRefused(result)
    THEN [ok |-> FALSE, status |-> 401, body |-> [valid |-> FALSE, error |-> "License check failed"]]
    ELSE [ok |-> TRUE, status |-> 200, body |-> result.body]

\* requireValidUpdaterLicense, lines 808-816
AuthOutcome(result) ==
  IF LicenseRefused(result)
    THEN [ok |-> FALSE, status |-> result.status, body |-> result.body]
    ELSE [ok |-> TRUE, status |-> 200, body |-> result.body]

normalizeManifestNames(value) == [i \in 1..Len(value) |-> normalizeManifestName(value[i])]

PreferredAliases ==
  <<Chars("beta-mac.yml"), Chars("latest-mac.yml"), Chars("latest-mac-beta.yml"),
    Chars("beta.yml"), Chars("latest.yml")>>

\* the first element of list that satisfies the test, '' when none does
FirstWhere(list, hits) ==
  IF hits = {} THEN <<>> ELSE list[CHOOSE i \in hits : \A j \in hits : i <= j]

\* lines 49-52: the names given, normalized, the empty ones dropped
ManifestCandidates(value) ==
  filterBoolean(normalizeManifestNames(IF value = <<>> THEN <<<<>>>> ELSE value))

\* line 55
ArchMarker(arch) == IF arch = Arm64 THEN Arm64 ELSE IF arch = X64 THEN X64 ELSE <<>>

\* lines 53-71, on the candidates
HintAmong(candidates, archMarker) ==
  IF candidates = <<>> THEN <<>>
  ELSE OrElse(IF archMarker = <<>> THEN <<>>
              ELSE FirstWhere(candidates,
                     {i \in 1..Len(candidates) : includes(candidates[i], archMarker)}),
         OrElse(FirstWhere(PreferredAliases,
                  {i \in 1..Len(PreferredAliases) : PreferredAliases[i] \in Range(candidates)}),
                candidates[Len(candidates)]))

selectManifestHint(value, arch) == HintAmong(ManifestCandidates(value), ArchMarker(arch))

\* lines 77-81: the decoded text, the raw value when decoding throws
DecodedOr(decoded, value) == IF decoded.threw THEN value ELSE decoded.text

decodeArtifactParam(value) ==
  IF value = <<>> THEN <<>> ELSE DecodedOr(decodeURIComponent(value), value)

\* lines 92-99, on the lower-cased name
PlatformNamed(name) ==
  IF includes(name, Mac) \/ includes(name, Chars("darwin")) THEN Mac
  ELSE IF includes(name, Linux) THEN Linux
  ELSE IF includes(name, Win) THEN Win
  ELSE IF name # <<>> THEN Win
  ELSE <<>>

\* lines 103-107, on the lower-cased name
ArchNamed(name) ==
  IF includes(name, Arm64) \/ includes(name, Chars("aarch64")) THEN Arm64
  ELSE IF includes(name, X64) \/ includes(name, Chars("amd64")) THEN X64
  ELSE <<>>

inferPlatformFromManifest(manifestName) == PlatformNamed(toLowerCase(manifestName))

inferArchFromManifest(manifestName) == ArchNamed(toLowerCase(manifestName))

\* getRequestOrigin for a request without forwarding headers
RequestOrigin == Chars("https://www.hyperfect.dev")

yamlEscapeChar(c) == IF c = "\"" THEN <<"\\", "\"">> ELSE <<c>>
RECURSIVE yamlEscape(_)
yamlEscape(value) ==
  IF value = <<>> THEN <<>> ELSE yamlEscapeChar(Head(value)) \o yamlEscape(Tail(value))

\* the document buildManifestYml writes, by its lines
buildManifestYml(version, releaseDate, sha512, size, fileUrl, releaseNotes) ==
  [version |-> version,
   releaseDate |-> releaseDate,
   files |-> <<[url |-> fileUrl, sha512 |-> sha512, size |-> size]>>,
   path |-> fileUrl,
   sha512 |-> sha512,
   releaseNotes |-> yamlEscape(cleanText(releaseNotes, 2000))]

\* ------------------------------------------------- the length of a token
\* cleanText(req.query.t, 800) cuts a token string after 800 characters.
NumberFields == {"exp", "assetId"}
EscapedLength(s) == Len(s) + Cardinality({i \in 1..Len(s) : s[i] \in {"\"", "\\", "\n", "\t"}})
\* "name":value
MemberLength(payload, f) ==
  Len(f) + 3 +
    (IF f \in NumberFields THEN Len(ToDecimal(payload[f]))
     ELSE IF f = "source" THEN Len(payload[f]) + 2
     ELSE EscapedLength(payload[f]) + 2)
RECURSIVE MembersLength(_, _)
MembersLength(payload, fields) ==
  IF fields = {} THEN 0
  ELSE LET f == CHOOSE x \in fields : TRUE
       IN MemberLength(payload, f) + 1 + MembersLength(payload, fields \ {f})
\* JSON.stringify(payload).length
JsonLength(payload) == 1 + MembersLength(payload, DOMAIN payload)
\* the length of the unpadded base64 text of n bytes
Base64Length(n) == (4 * n + 2) \div 3
HmacDigestLength == Base64Length(32)
MAX_TOKEN_LENGTH == 800

SegmentLength(segment) ==
  IF DOMAIN segment = {"hmac"} THEN HmacDigestLength
  ELSE IF DOMAIN segment = {"b64"} /\ DOMAIN segment.b64 = {"json"}
    THEN Base64Length(JsonLength(segment.b64.json))
  ELSE IF segment = EmptySegment THEN 0
  ELSE segment.length

\* Buffer.from(segment).length: the bytes of the segment in UTF-8, more than
\* its characters when the client wrote a character outside ASCII into it
SegmentBytes(segment) ==
  IF "bytes" \in DOMAIN segment THEN segment.bytes ELSE SegmentLength(segment)

\* verifyToken leaves by an exception
Thrown == [threw |-> TRUE]

\* the signature is not compared with the HMAC of the body
VerifySegments_SkipsSignature(body, signature, secret, dateNow) ==
  IF body = EmptySegment \/ signature = EmptySegment THEN NoPayload
  ELSE IF HmacDigestLength # SegmentLength(signature) THEN NoPayload
  ELSE IF HmacDigestLength # SegmentBytes(signature) THEN Thrown
  ELSE PayloadOf(fromBase64Url(body), dateNow)

\* lines 78-98, on the two segments split off the token; timingSafeEqual
\* throws a RangeError for buffers of different byte length
VerifySegments(body, signature, secret, dateNow) ==
  IF body = EmptySegment \/ signature = EmptySegment THEN NoPayload
  ELSE IF HmacDigestLength # SegmentLength(signature) THEN NoPayload
  ELSE IF HmacDigestLength # SegmentBytes(signature) THEN Thrown
  ELSE IF createHmac(secret, body) # signature THEN NoPayload
  ELSE PayloadOf(fromBase64Url(body), dateNow)

\* line 77: the first two of the segments split('.') yields
verifyToken(token, secret, dateNow) ==
  VerifySegments(IF Len(token) >= 1 THEN token[1] ELSE EmptySegment,
                 IF Len(token) >= 2 THEN token[2] ELSE EmptySegment,
                 secret, dateNow)

\* cleanText(token, maxLen): base64url text holds no white space, so only the
\* cut applies.  A segment that is cut keeps its first characters only.
RECURSIVE sliceToken(_, _)
sliceToken(token, maxLen) ==
  IF token = <<>> \/ maxLen <= 0 THEN <<>>
  ELSE IF SegmentLength(Head(token)) <= maxLen
    THEN <<Head(token)>> \o sliceToken(Tail(token), maxLen - SegmentLength(Head(token)) - 1)
  ELSE <<[cut |-> Head(token), length |-> maxLen]>>

\* ------------------------------------------------------------ the router
\* download.js lines 378-387, on the hints of lines 371-376
RouteOf(readMethod, mode, hasFileHint, manifestHint) ==
  IF readMethod /\ ~(mode = Chars("file") \/ hasFileHint)
     /\ (mode = Chars("feed") \/ (manifestHint # <<>> /\ endsWith(manifestHint, DotYml)))
    THEN "feed"
  ELSE IF readMethod /\ (mode = Chars("file") \/ hasFileHint) THEN "file"
  ELSE "none"

\* download.js lines 371-387
Route(req) ==
  RouteOf(req.method \in {"GET", "HEAD"},
          toLowerCase(cleanText(req.query.mode, 16)),
          cleanText(decodeArtifactParam(req.query.artifact), 200) # <<>> \/ req.query.t # NoToken,
          selectManifestHint(req.query.manifest, normalizeArch(req.query.arch)))

\* ------------------------------------------------------ handleUpdaterFeed
\* lines 138-141
FeedTargetWith(query, channel, platform, arch) ==
  [channel |-> channel, platform |-> platform, arch |-> arch,
   manifest |-> selectManifestHint(query.manifest, arch),
   debugRequested |-> cleanText(query.debug, 8) = <<"1">>]

\* lines 134-137: the default arch
FeedTargetFor(query, channel, platform, inferredArch) ==
  FeedTargetWith(query, channel, platform,
                 IF inferredArch # <<>> THEN inferredArch
                 ELSE IF platform = Mac THEN Arm64 ELSE X64)

\* lines 124-133: platform and arch read from the manifest name when not given
FeedTargetOf(query, channel, manifestRaw, queryPlatform, queryArch) ==
  FeedTargetFor(query, channel,
                IF queryPlatform = <<>> /\ manifestRaw # <<>>
                  THEN normalizePlatform(inferPlatformFromManifest(manifestRaw))
                  ELSE queryPlatform,
                IF queryArch = <<>> /\ manifestRaw # <<>>
                  THEN normalizeArch(inferArchFromManifest(manifestRaw))
                  ELSE queryArch)

\* lines 118-141: what the feed request asks for
FeedTarget(query) ==
  FeedTargetOf(query, normalizeChannel(query.channel),
               cleanText(IF query.manifest = <<>> THEN <<>> ELSE query.manifest[1], 200),
               normalizePlatform(query.platform), normalizeArch(query.arch))

ttlMs == 2 * 60 * 60 * 1000

\* lines 189-204
TokenPayload(updateConfig, target, dateNow) ==
  IF updateConfig.source = "github"
    THEN [source |-> "github",
          channel |-> target.channel,
          platform |-> target.platform,
          arch |-> target.arch,
          artifact |-> updateConfig.fileName,
          exp |-> dateNow + ttlMs,
          owner |-> updateConfig.owner,
          repo |-> updateConfig.repo,
          assetId |-> updateConfig.binaryAssetId,
          assetName |-> OrElse(updateConfig.binaryAssetName, updateConfig.fileName),
          releaseTag |-> updateConfig.releaseTag]
    ELSE [source |-> updateConfig.source,
          channel |-> target.channel,
          platform |-> target.platform,
          arch |-> target.arch,
          artifact |-> updateConfig.fileName,
          exp |-> dateNow + ttlMs]

\* line 210, by its parts
DownloadUrl(updateConfig, target, token) ==
  [origin |-> RequestOrigin,
   path |-> <<Chars("api"), Chars("update"), encodeURIComponent(updateConfig.fileName)>>,
   channel |-> encodeURIComponent(target.channel),
   platform |-> encodeURIComponent(target.platform),
   arch |-> encodeURIComponent(target.arch),
   t |-> token]

Unsigned(response) == [response |-> response, token |-> NoToken]

\* `No update configured for ${channel}/${platform}/${arch}`
NotConfigured(target) ==
  [text |-> "No update configured for",
   channel |-> target.channel, platform |-> target.platform, arch |-> target.arch]

\* the diagnostics collected for debug=1, of which the mode is kept
FeedDebug == [mode |-> getUpdatesSourceMode]

\* lines 206-226: the manifest written around the signed token
FeedWithToken(req, target, updateConfig, token) ==
  IF req.method = "HEAD"
    THEN [response |-> [status |-> 200, kind |-> "end", body |-> NoBody], token |-> token]
  ELSE [response |->
          [status |-> 200, kind |-> "yaml",
           body |-> [manifest |->
                       buildManifestYml(updateConfig.version, updateConfig.releaseDate,
                                        updateConfig.sha512, updateConfig.size,
                                        DownloadUrl(updateConfig, target, token),
                                        updateConfig.releaseNotes)]],
        token |-> token]

\* lines 186-206: signToken throws without a secret, and the catch answers 500
FeedSigned(req, target, updateConfig, secret, dateNow) ==
  IF secret = <<>> THEN Unsigned(Json(500, [error |-> "Could not generate updater feed"]))
  ELSE FeedWithToken(req, target, updateConfig,
                     signToken(TokenPayload(updateConfig, target, dateNow), secret))

\* lines 150-185: no configuration, or the debug answer
FeedForConfig(req, target, updateConfig, dateNow) ==
  IF updateConfig = NoConfig
    THEN Unsigned(Json(404, IF target.debugRequested
                              THEN [error |-> NotConfigured(target), debug |-> FeedDebug]
                              ELSE [error |-> NotConfigured(target)]))
  ELSE IF target.debugRequested
    THEN Unsigned(Json(200,
           [update |-> [source |-> updateConfig.source,
                        channel |-> target.channel,
                        platform |-> target.platform,
                        arch |-> target.arch,
                        version |-> updateConfig.version,
                        releaseDate |-> updateConfig.releaseDate,
                        fileName |-> updateConfig.fileName,
                        releaseTag |-> IF updateConfig.source = "github"
                                         THEN updateConfig.releaseTag ELSE <<>>],
            debug |-> FeedDebug]))
  ELSE FeedSigned(req, target, updateConfig, getUpdateSecret, dateNow)

\* lines 114-149: the license outcome, then the target
FeedAnswer(req, auth, target, dateNow) ==
  IF ~auth.ok THEN Unsigned(Json(auth.status, auth.body))
  ELSE IF target.platform = <<>> \/ target.arch = <<>>
    THEN Unsigned(Json(400, [error |-> "Invalid updater platform/arch request"]))
  ELSE FeedForConfig(req, target,
                     getUpdateConfig(target.channel, target.platform, target.arch,
                                     target.manifest, dateNow),
                     dateNow)

\* lines 110-227, with the outcome of requireValidUpdaterLicense; the token
\* signed while answering is returned beside the response
handleUpdaterFeed(req, auth, dateNow) == FeedAnswer(req, auth, FeedTarget(req.query), dateNow)

\* ------------------------------------------------------ handleUpdaterFile
\* lines 232-237
FileTarget(query) ==
  [channel |-> normalizeChannel(query.channel),
   platform |-> normalizePlatform(query.platform),
   arch |-> normalizeArch(query.arch),
   artifact |-> cleanText(decodeArtifactParam(query.artifact), 200),
   token |-> sliceToken(query.t, MAX_TOKEN_LENGTH),
   manifestHint |-> selectManifestHint(query.manifest, normalizeArch(query.arch))]

\* line 239
IsInvalidDownload(target) ==
  target.platform = <<>> \/ target.arch = <<>> \/ target.artifact = <<>>

\* the answers of the release host to the request for a binary asset
AssetHostAnswers == {"redirect", "ok", "not-found"}
AssetLocation(owner, repo, assetId) == [asset |-> <<owner, repo, assetId>>]

ServerError == Json(500, [error |-> "Could not serve updater download"])

\* getGitHubAssetRedirect and the lines that relay its outcome (263-290, 322-349)
ServeResolvedAsset(resolvedOwner, resolvedRepo, assetId, method, answer) ==
  IF resolvedOwner = <<>> \/ resolvedRepo = <<>> \/ assetId <= 0 THEN ServerError
  ELSE IF answer = "redirect" THEN Redirect(AssetLocation(resolvedOwner, resolvedRepo, assetId))
  ELSE IF answer = "not-found" THEN ServerError
  ELSE IF method = "HEAD" THEN [status |-> 200, kind |-> "end", body |-> NoBody]
  ELSE [status |-> 200, kind |-> "stream",
        body |-> [bytes |-> AssetLocation(resolvedOwner, resolvedRepo, assetId)]]

\* part_000 lines 714-717
ServeGitHubAsset(owner, repo, assetId, method, answer) ==
  ServeResolvedAsset(cleanText(OrElse(owner, getGitHubRepoConfig.owner), 100),
                     cleanText(OrElse(repo, getGitHubRepoConfig.repo), 100),
                     assetId, method, answer)

FileUrlOf(updateConfig) ==
  IF "fileUrl" \in DOMAIN updateConfig THEN updateConfig.fileUrl ELSE <<>>

\* the scope comparison never made
ScopeMismatch_Ignored(tokenPayload, target) == FALSE

\* lines 305-310
ScopeMismatch(tokenPayload, target) ==
  \/ tokenPayload.channel # target.channel
  \/ tokenPayload.platform # target.platform
  \/ tokenPayload.arch # target.arch
  \/ tokenPayload.artifact # target.artifact

\* the requested artifact is not compared with the resolved file name
ServeConfigured_AnyArtifact(req, target, updateConfig, answer) ==
  IF updateConfig = NoConfig
    THEN Json(404, [error |-> "Update artifact not configured"])
  ELSE IF updateConfig.source = "github"
    THEN ServeGitHubAsset(updateConfig.owner, updateConfig.repo,
                          updateConfig.binaryAssetId, req.method, answer)
  ELSE Redirect([url |-> FileUrlOf(updateConfig)])

\* lines 253-297: the configured artifact, for a licensed updater
ServeConfigured(req, target, updateConfig, answer) ==
  IF updateConfig = NoConfig \/ updateConfig.fileName # target.artifact
    THEN Json(404, [error |-> "Update artifact not configured"])
  ELSE IF updateConfig.source = "github"
    THEN ServeGitHubAsset(updateConfig.owner, updateConfig.repo,
                          updateConfig.binaryAssetId, req.method, answer)
  ELSE IF FileUrlOf(updateConfig) = <<>>
    THEN Json(404, [error |-> "Update artifact URL not configured"])
  ELSE Redirect([url |-> updateConfig.fileUrl])

\* lines 246-297: no token, the updater credentials decide
ServeWithoutToken(req, auth, target, dateNow, answer) ==
  IF ~auth.ok THEN Json(auth.status, auth.body)
  ELSE ServeConfigured(req, target,
                       getUpdateConfig(target.channel, target.platform, target.arch,
                                       target.manifestHint, dateNow),
                       answer)

\* lines 352-362: the artifact of the environment configuration
ServeEnvArtifact(target, updateConfig) ==
  IF \/ updateConfig = NoConfig
     \/ updateConfig.fileName # target.artifact
     \/ FileUrlOf(updateConfig) = <<>>
    THEN Json(404, [error |-> "Update artifact not configured"])
  ELSE Redirect([url |-> updateConfig.fileUrl])

\* lines 301-362: the verified payload decides
ServeForPayload(req, target, tokenPayload, dateNow, answer) ==
  IF tokenPayload = NoPayload
    THEN Json(401, [error |-> "Invalid or expired download token"])
  ELSE IF ScopeMismatch(tokenPayload, target)
    THEN Json(401, [error |-> "Download token scope mismatch"])
  ELSE IF tokenPayload.source = "github"
    THEN IF tokenPayload.assetId <= 0
           THEN Json(400, [error |-> "Invalid GitHub asset token payload"])
           ELSE ServeGitHubAsset(tokenPayload.owner, tokenPayload.repo,
                                 tokenPayload.assetId, req.method, answer)
  ELSE ServeEnvArtifact(target,
                        getUpdateConfig(target.channel, target.platform, target.arch,
                                        target.manifestHint, dateNow))

\* lines 299-362: the token decides; getUpdateSecret throws without a secret,
\* and what verifyToken throws reaches the catch of the handler as well
ServeWithToken(req, target, dateNow, answer) ==
  IF getUpdateSecret = <<>> THEN ServerError
  ELSE IF verifyToken(target.token, getUpdateSecret, dateNow) = Thrown THEN ServerError
  ELSE ServeForPayload(req, target, verifyToken(target.token, getUpdateSecret, dateNow),
                       dateNow, answer)

\* the license is asked for before the token is looked at
ServeTarget_LicenseFirst(req, auth, target, dateNow, answer) ==
  IF IsInvalidDownload(target) THEN Json(400, [error |-> "Invalid download request"])
  ELSE IF ~auth.ok THEN Json(auth.status, auth.body)
  ELSE IF target.token = NoToken THEN ServeWithoutToken(req, auth, target, dateNow, answer)
  ELSE ServeWithToken(req, target, dateNow, answer)

\* lines 239-363, on the normalized request
ServeTarget(req, auth, target, dateNow, answer) ==
  IF IsInvalidDownload(target) THEN Json(400, [error |-> "Invalid download request"])
  ELSE IF target.token = NoToken THEN ServeWithoutToken(req, auth, target, dateNow, answer)
  ELSE ServeWithToken(req, target, dateNow, answer)

\* lines 229-363, with the outcome of requireValidUpdaterLicense when the
\* request carries no token
handleUpdaterFile(req, auth, dateNow, answer) ==
  ServeTarget(req, auth, FileTarget(req.query), dateNow, answer)

\* ------------------------------------------------------- gateway requests
GatewayProc == "p1"     \* the process whose validateLicenseRecord call the gateway awaits

Header(key, hardwareId) ==
  [NoHeaders EXCEPT !.licenseKey = key, !.hardwareId = hardwareId, !.appVersion = VersionOne]
LicensedHeaders == Header(KeyOne, HwOne)
\* the key sent as a bearer credential, as a user may type it
BearerHeaders ==
  [NoHeaders EXCEPT !.authorization = Chars("Bearer ") \o KeyOneTyped, !.hardwareId = HwOneUpper]
FeedHeaders ==
  {LicensedHeaders, BearerHeaders, Header(KeyOne, HwTwo), Header(KeyTwo, HwTwo),
   Header(KeyUnknown, HwOne), Header(KeyMalformed, HwOne), Header(KeyOne, <<>>), NoHeaders}

FeedQuery(channel, platform, arch, manifest) ==
  [NoQuery EXCEPT !.mode = Chars("feed"), !.channel = channel, !.platform = platform,
                  !.arch = arch, !.manifest = manifest]
MacStableQuery == FeedQuery(Stable, Mac, Arm64, <<>>)
FeedQueries ==
  {MacStableQuery,
   FeedQuery(Chars("BETA"), Mac, <<>>, <<Chars("beta-mac.yml")>>),
   [NoQuery EXCEPT !.manifest = <<Chars("latest.yml")>>],
   FeedQuery(Stable, <<>>, <<>>, <<>>),
   [MacStableQuery EXCEPT !.debug = <<"1">>]}

FeedRequests ==
  {[method |-> "GET", headers |-> LicensedHeaders, query |-> q] : q \in FeedQueries}
  \cup {[method |-> "GET", headers |-> h, query |-> MacStableQuery] : h \in FeedHeaders}
  \cup {[method |-> "HEAD", headers |-> LicensedHeaders, query |-> MacStableQuery]}

\* a segment that is not the work of toBase64Url or of an HMAC
GarbageSegment == [garbage |-> TRUE, length |-> 8]
\* as long as a digest in characters, one character of it outside ASCII
WideSegment ==
  [garbage |-> TRUE, length |-> HmacDigestLength, bytes |-> HmacDigestLength + 1]
OtherSecret == Chars("guess")

\* what a client can make of the token it holds without the signing secret
TokenVariants(token) ==
  IF token = NoToken THEN {NoToken, <<GarbageSegment, GarbageSegment>>}
  ELSE {token,
        NoToken,
        <<token[1]>>,
        <<token[1], createHmac(OtherSecret, token[1])>>,
        <<toBase64Url(JSONstringify([token[1].b64.json EXCEPT !.exp = @ + ttlMs])), token[2]>>,
        token \o <<GarbageSegment>>,
        <<token[1], WideSegment>>}

OtherThan(value, values) == CHOOSE v \in values : v # value

\* the query of the download URL the feed wrote for the token
DownloadQuery(token) ==
  LET payload == token[1].b64.json
  IN [NoQuery EXCEPT !.channel = payload.channel, !.platform = payload.platform,
                     !.arch = payload.arch, !.artifact = payload.artifact, !.t = token]

\* a download URL kept from an earlier release, for a client that holds no token
StaleQuery ==
  [NoQuery EXCEPT !.channel = Beta, !.platform = Mac, !.arch = Arm64,
                  !.artifact = Chars("b.dmg")]

\* The download queries explored: the query of the download URL as the feed
\* wrote it, and every query that differs from it in one parameter.
QueriesAround(base, token) ==
  {base}
  \cup {[base EXCEPT !.channel = v] :
          v \in {toUpperCase(base.channel), OtherThan(base.channel, ALLOWED_CHANNELS),
                 Chars("nightly"), <<>>}}
  \cup {[base EXCEPT !.platform = v] :
          v \in {toUpperCase(base.platform), OtherThan(base.platform, ALLOWED_PLATFORMS),
                 Chars("ios"), <<>>}}
  \cup {[base EXCEPT !.arch = v] :
          v \in {toUpperCase(base.arch), OtherThan(base.arch, ALLOWED_ARCHES), <<>>}}
  \cup {[base EXCEPT !.artifact = v] :
          v \in {encodeURIComponent(base.artifact), <<" ">> \o base.artifact,
                 Chars("other.dmg"), <<>>}}
  \cup {[base EXCEPT !.t = v] : v \in TokenVariants(token)}

FileQueries ==
  QueriesAround(IF held = NoToken THEN StaleQuery ELSE DownloadQuery(held), held)

WithHeaders(method, headers, queries) ==
  {[method |-> method, headers |-> headers, query |-> q] : q \in queries}

FileRequestsOf(queries) ==
  WithHeaders("GET", NoHeaders, queries)
  \cup WithHeaders("GET", LicensedHeaders, {r \in queries : r.t = NoToken})

FileRequests == FileRequestsOf(FileQueries)

\* a GET that names neither a feed nor a file
BareRequest == [method |-> "GET", headers |-> NoHeaders, query |-> NoQuery]

GatewayRequests == FeedRequests \cup FileRequests \cup {BareRequest}

\* ------------------------------------------------------- gateway actions
\* at is the reading of Date.now() under which the response was made
IdleGateway == [pc |-> "idle", req |-> NoRequest, response |-> NoResponse, at |-> 0]

\* the handler asks requireValidUpdaterLicense before anything else it answers
NeedsLicenseFor(route, target) ==
  \/ route = "feed"
  \/ /\ route = "file"
     /\ ~IsInvalidDownload(target)
     /\ target.token = NoToken

NeedsLicense(req) == NeedsLicenseFor(Route(req), FileTarget(req.query))

\* download.js lines 389-409: the response and the token signed for it
AnswerRoute(route, req, auth, answer) ==
  IF route = "feed" THEN handleUpdaterFeed(req, auth, now)
  ELSE IF route = "file"
    THEN [response |-> handleUpdaterFile(req, auth, now, answer), token |-> NoToken]
  ELSE [response |-> Json(405, [error |-> "Method not allowed"]), token |-> NoToken]

Answer(req, auth, answer) == AnswerRoute(Route(req), req, auth, answer)

\* requireValidUpdaterLicense, lines 800-805: the call it makes
CallFor(auth) == BeginCall(auth.key, auth.hardwareId, auth.appVersion, TRUE)

\* requireValidUpdaterLicense up to its await: the validateLicenseRecord call begins
GatewayValidate(req) ==
  /\ gw.pc = "idle" /\ calls[GatewayProc].pc = "idle"
  /\ NeedsLicense(req) /\ HasUpdaterCredentials(req.headers)
  /\ calls' = [calls EXCEPT ![GatewayProc] = CallFor(extractUpdaterAuth(req.headers))]
  /\ gw' = [pc |-> "auth", req |-> req, response |-> NoResponse, at |-> 0]
  /\ UNCHANGED <<customers, subscriptions, now, ticks, reset, env, releases, held>>

\* the response is ready: the gateway keeps it, the client keeps the token
Respond(req, out) ==
  /\ gw' = [pc |-> "done", req |-> req, response |-> out.response, at |-> now]
  /\ held' = IF out.token # NoToken THEN out.token ELSE held

\* a request answered without a validateLicenseRecord call
GatewayAnswer(req, answer) ==
  /\ gw.pc = "idle" /\ calls[GatewayProc].pc = "idle"
  /\ ~(NeedsLicense(req) /\ HasUpdaterCredentials(req.headers))
  /\ Respond(req, Answer(req, MissingCredentials, answer))
  /\ UNCHANGED <<customers, subscriptions, now, ticks, calls, reset, env, releases>>

\* the validateLicenseRecord call has returned: the rest of the handler
GatewayAnswerLicensed(answer) ==
  /\ gw.pc = "auth" /\ calls[GatewayProc].pc = "done"
  /\ Respond(gw.req, Answer(gw.req, AuthOutcome(calls[GatewayProc].result), answer))
  /\ UNCHANGED <<customers, subscriptions, now, ticks, calls, reset, env, releases>>

\* the response has been sent
GatewayEnd ==
  /\ gw.pc = "done"
  /\ gw' = IdleGateway
  /\ calls' = [calls EXCEPT ![GatewayProc] = IdleCall]
  /\ UNCHANGED <<customers, subscriptions, now, ticks, reset, env, releases, held>>

\* ------------------------------------------------- gateway configurations
\* process.env as a function, from a set of <<name, value>> pairs
EnvOf(pairs) == [n \in {p[1] : p \in pairs} |-> (CHOOSE p \in pairs : p[1] = n)[2]]

SigningSecret == Chars("s3cret")

\* static configuration: an arch-specific stable mac build whose FILE_URL
\* has an escaped space in its file name, and an arch-optional beta mac build
\* with an explicit FILE_NAME
StaticArtifacts ==
  {<<Chars("UPDATE_LINK_SECRET"), SigningSecret>>,
   <<Chars("UPDATE_STABLE_MAC_ARM64_VERSION"), Chars("1.2.0")>>,
   <<Chars("UPDATE_STABLE_MAC_ARM64_FILE_URL"), Chars("https://cdn.test/d/N%20x.dmg")>>,
   <<Chars("UPDATE_STABLE_MAC_ARM64_SHA512"), Chars("c2hh")>>,
   <<Chars("UPDATE_STABLE_MAC_ARM64_SIZE"), Chars("42")>>,
   <<Chars("UPDATE_BETA_MAC_VERSION"), Chars("1.3.0-beta.1")>>,
   <<Chars("UPDATE_BETA_MAC_FILE_URL"), Chars("https://cdn.test/d/beta?id=7")>>,
   <<Chars("UPDATE_BETA_MAC_SHA512"), Chars("c2hi")>>,
   <<Chars("UPDATE_BETA_MAC_SIZE"), Chars("43 ")>>,
   <<Chars("UPDATE_BETA_MAC_RELEASE_DATE"), Chars("2025-06-01")>>,
   <<Chars("UPDATE_BETA_MAC_FILE_NAME"), Chars("b.dmg")>>}

EnvStatic == EnvOf(StaticArtifacts \cup {<<Chars("UPDATE_SOURCE"), Chars("env")>>})
EnvAuto == EnvOf(StaticArtifacts \cup {<<Chars("UPDATE_SOURCE"), Chars("auto")>>})
EnvGitHub == EnvOf({<<Chars("UPDATE_LINK_SECRET"), SigningSecret>>})

Manifest(version, url) ==
  [version |-> version, releaseDate |-> EmptyDate, path |-> url, releaseNotes |-> <<>>,
   fileBlock |-> [url |-> url, sha512 |-> Chars("c2hh"), size |-> Chars("42")],
   lastSha |-> Chars("c2hh")]
ManifestAsset(id, name, text) == [id |-> id, name |-> name, fetchStatus |-> 200, text |-> text]
BinaryAsset(id, name) == [id |-> id, name |-> name, fetchStatus |-> 200, text |-> NoText]

\* the releases as the release host lists them: newest first
ReleaseListing ==
  <<[draft |-> FALSE, prerelease |-> TRUE, tag_name |-> Chars("v1.3.0-beta.1"),
     published_at |-> [at |-> 3], body |-> Chars("beta notes"),
     assets |-> <<ManifestAsset(11, Chars("beta-mac.yml"),
                                Manifest(Chars("1.3.0-beta.1"), Chars("N-arm64.dmg"))),
                  BinaryAsset(12, Chars("N-arm64.dmg"))>>],
    [draft |-> FALSE, prerelease |-> FALSE, tag_name |-> Chars("v1.2.0"),
     published_at |-> [at |-> 2], body |-> <<>>,
     assets |-> <<ManifestAsset(21, Chars("latest-mac.yml"),
                                Manifest(Chars("1.2.0"), Chars("N%20mac.dmg"))),
                  BinaryAsset(22, Chars("N mac.dmg")),
                  ManifestAsset(23, Chars("latest.yml"),
                                Manifest(Chars("1.2.0"), Chars("N-Setup.exe"))),
                  BinaryAsset(24, Chars("N-Setup.exe"))>>]>>

Reachable == [ok |-> TRUE, listing |-> ReleaseListing]
Unreachable == [ok |-> FALSE, listing |-> <<>>]

LifetimeRecord == [metadata |-> EmptyMetadata(KeyOne, ""), listing |-> <<>>]
LapsedRecord == [metadata |-> EmptyMetadata(KeyOne, "subscription"), listing |-> <<"canceled">>]

GatewayConfigs ==
  {[env |-> EnvStatic, releases |-> Unreachable, record |-> LifetimeRecord],
   [env |-> EnvStatic, releases |-> Unreachable, record |-> LapsedRecord],
   [env |-> EnvGitHub, releases |-> Reachable, record |-> LifetimeRecord],
   [env |-> EnvAuto, releases |-> Unreachable, record |-> LifetimeRecord]}

\* ------------------------------------------------------------- the clock
Tick(d) ==
  /\ ticks < MaxTicks
  /\ now' = now + d
  /\ ticks' = ticks + 1
  /\ UNCHANGED <<customers, subscriptions, calls, reset, gatewayVars>>

\* The instants at which requests arrive: the clock advances in turn to one
\* millisecond before the end of the reset cooldown and to its end.
LicenseTickStep == IF ticks % 2 = 0 THEN ResetCooldownMs - 1 ELSE 1

vars == <<customers, subscriptions, now, ticks, calls, reset, env, releases, gw, held>>

\* ------------------------------------------------------------ behaviours
\* cus_1 is the record the calls work on: a lifetime licence, revoked or not,
\* unbound or already bound, or a subscription licence with some listing of
\* subscriptions, or a revoked subscription licence.  cus_2 is another
\* customer's record (revoked, bound).
InitialRecords ==
  {[metadata |-> [EmptyMetadata(KeyOne, "") EXCEPT
                    !.license_revoked = r,
                    !.license_hardware_id = h,
                    !.license_hardware_bound_at = IF h = <<>> THEN 0 ELSE 1],
    listing |-> <<>>] : r \in {"", "true"}, h \in {<<>>, HwOne}}
  \cup
  {[metadata |-> EmptyMetadata(KeyOne, "subscription"), listing |-> l] :
     l \in {<<>>, <<"canceled">>, <<"canceled", "past_due">>}}
  \cup
  {[metadata |-> [EmptyMetadata(KeyOne, "subscription") EXCEPT !.license_revoked = "true"],
    listing |-> <<"canceled">>]}

OtherMetadata ==
  [EmptyMetadata(KeyTwo, "") EXCEPT !.license_revoked = "true",
                                    !.license_hardware_id = HwTwo,
                                    !.license_hardware_bound_at = 1]

InitStore(r) ==
  /\ customers =
       [c \in CustomerIds |->
          IF c = "cus_1" THEN [email |-> "one@example.com", metadata |-> r.metadata]
          ELSE [email |-> "two@example.com", metadata |-> OtherMetadata]]
  /\ subscriptions = [c \in CustomerIds |-> IF c = "cus_1" THEN r.listing ELSE <<>>]
  /\ now = 1
  /\ ticks = 0
  /\ calls = [p \in Procs |-> IdleCall]
  /\ reset = IdleReset
  /\ gw = IdleGateway
  /\ held = NoToken

Init ==
  /\ \E r \in InitialRecords : InitStore(r)
  /\ env = EnvGitHub
  /\ releases = Unreachable

\* Calls that do not overlap: one caller, which starts a call only when its last
\* one has returned.  reset_machine requests interleave with it freely.
SequentialProcs == {"p1"}

Next ==
  \/ \E p \in SequentialProcs, r \in RawRequests :
       ValidateCall(p, r.key, r.hardwareId, r.appVersion, r.bindHardware)
  \/ \E p \in SequentialProcs : ValidateFind(p)
  \/ \E p \in SequentialProcs : ValidateSubscription(p)
  \/ \E p \in SequentialProcs : ValidateUpdate(p)
  \/ \E p \in SequentialProcs : ValidateReturn(p)
  \/ \E s \in Sessions : ResetRetrieve(s)
  \/ ResetUpdate
  \/ ResetReturn
  \/ Tick(LicenseTickStep)

Spec == Init /\ [][Next]_vars


\* Two callers whose calls overlap freely, both activating the key of cus_1.
ConcurrentRequests ==
  [key : {KeyOne}, hardwareId : {HwOne, HwOneUpper, HwTwo}, appVersion : {VersionOne},
   bindHardware : {TRUE}]

NextConcurrent ==
  \/ \E p \in Procs, r \in ConcurrentRequests :
       ValidateCall(p, r.key, r.hardwareId, r.appVersion, r.bindHardware)
  \/ \E p \in Procs : ValidateFind(p)
  \/ \E p \in Procs : ValidateSubscription(p)
  \/ \E p \in Procs : ValidateUpdate(p)
  \/ \E p \in Procs : ValidateReturn(p)
  \/ Tick(LicenseTickStep)

SpecConcurrent == Init /\ [][NextConcurrent]_vars

\* The updater client: one request at a time to the download endpoint, feed or
\* file, while the clock advances to the expiry of the first token and past it.
GatewayTickStep == IF ticks % 2 = 0 THEN ttlMs ELSE 1

InitGateway ==
  \E c \in GatewayConfigs :
    /\ InitStore(c.record)
    /\ env = c.env
    /\ releases = c.releases

NextGateway ==
  \/ \E req \in GatewayRequests : GatewayValidate(req)
  \/ \E req \in GatewayRequests, answer \in AssetHostAnswers : GatewayAnswer(req, answer)
  \/ \E answer \in AssetHostAnswers : GatewayAnswerLicensed(answer)
  \/ GatewayEnd
  \/ ValidateFind(GatewayProc)
  \/ ValidateSubscription(GatewayProc)
  \/ ValidateUpdate(GatewayProc)
  \/ Tick(GatewayTickStep)

SpecGateway == InitGateway /\ [][NextGateway]_vars

\* ------------------------------------------- release-host resolution alone
\* getGitHubUpdateConfig applied to the listings the release host can answer
\* with: every ordering of up to MaxReleases releases of the pool below.
ManifestDated(version, url, builtAt) ==
  [Manifest(version, url) EXCEPT !.releaseDate = [at |-> builtAt]]

Release(tag, prerelease, publishedAt, assets) ==
  [draft |-> FALSE, prerelease |-> prerelease, tag_name |-> tag,
   published_at |-> [at |-> publishedAt], body |-> <<>>, assets |-> assets]

\* a manifest asset and the binary it names
Build(id, manifestName, version, fileName, builtAt) ==
  <<ManifestAsset(id, manifestName, ManifestDated(version, fileName, builtAt)),
    BinaryAsset(id + 1, fileName)>>

Release130 ==
  Release(Chars("v1.3.0"), FALSE, 7,
          Build(31, Chars("latest-mac.yml"), Chars("1.3.0"), Chars("N-1.3.0-arm64.dmg"), 6))
\* built first, published late
Release120 ==
  Release(Chars("v1.2.0"), FALSE, 5,
          Build(41, Chars("latest-mac.yml"), Chars("1.2.0"), Chars("N-1.2.0-arm64.dmg"), 1))
\* the same version built again and published before Release120
Release120Again ==
  Release(Chars("v1.2.0-r2"), FALSE, 3,
          Build(51, Chars("latest-mac.yml"), Chars("1.2.0"), Chars("N-1.2.0-r2-arm64.dmg"), 2))
Release120Beta3 ==
  Release(Chars("v1.2.0-beta.3"), TRUE, 4,
          Build(61, Chars("beta-mac.yml"), Chars("1.2.0-beta.3"), Chars("N-b3-arm64.dmg"), 4))
Release120Beta1 ==
  Release(Chars("v1.2.0-beta.1"), TRUE, 2,
          Build(71, Chars("beta-mac.yml"), Chars("1.2.0-beta.1"), Chars("N-b1-arm64.dmg"), 2))
\* a prerelease whose x64 manifests advertise higher versions of builds that
\* run on both architectures
ReleaseWithX64 ==
  Release(Chars("v1.1.0-beta.1"), TRUE, 1,
          Build(81, Chars("beta-mac.yml"), Chars("1.1.0-beta.1"), Chars("N-1.1-arm64.dmg"), 1)
          \o Build(83, Chars("beta-mac-x64.yml"), Chars("9.1.0"), Chars("N-9.1-arm64-universal.dmg"), 1)
          \o Build(85, Chars("latest-mac-x64.yml"), Chars("9.0.0"), Chars("N-9.0.dmg"), 1))
\* a release whose mac manifest names the Windows installer
ReleaseMisnamed ==
  Release(Chars("v1.0.35"), FALSE, 1,
          Build(91, Chars("latest-mac.yml"), Chars("9.9.9"), Chars("Nexus-1.0.35-win-x64.exe"), 1)
          \o <<ManifestAsset(93, Chars("latest.yml"),
                             ManifestDated(Chars("1.0.35"), Chars("Nexus-1.0.35-win-x64.exe"), 1))>>)

ReleasePool ==
  {Release130, Release120, Release120Again, Release120Beta3, Release120Beta1,
   ReleaseWithX64, ReleaseMisnamed}

\* the listings: sequences of at most MaxReleases distinct releases
RECURSIVE ListingsOf(_)
ListingsOf(n) ==
  IF n = 0 THEN {<<>>}
  ELSE ListingsOf(n - 1)
       \cup {Append(l, r) : l \in {s \in ListingsOf(n - 1) : Len(s) = n - 1},
                            r \in ReleasePool}

IsInjective(l) == \A i, j \in 1..Len(l) : l[i] = l[j] => i = j

ResolveListings == {l \in ListingsOf(MaxReleases) : IsInjective(l)}

\* the (channel, platform, arch, requestedManifest) the resolution is asked for
ResolveQuery(channel, platform, arch, manifest) ==
  [NoQuery EXCEPT !.channel = channel, !.platform = platform, !.arch = arch,
                  !.manifest = manifest]

ResolveQueries ==
  {ResolveQuery(channel, Mac, Arm64, manifest) :
     channel \in ALLOWED_CHANNELS, manifest \in {<<>>, Chars("beta-mac.yml")}}
  \cup {ResolveQuery(Stable, Mac, X64, <<>>), ResolveQuery(Stable, Win, X64, <<>>)}

\* the instant of the resolution: after every release was published
ResolveClock == 10

\* getGitHubUpdateConfig is called and returns
Resolve(q) ==
  /\ gw.pc = "idle"
  /\ gw' = [pc |-> "done",
            req |-> [method |-> "GET", headers |-> NoHeaders, query |-> q],
            response |-> [status |-> 200, kind |-> "config",
                          body |-> getGitHubUpdateConfig(q.channel, q.platform, q.arch,
                                                         q.manifest, now)],
            at |-> now]
  /\ UNCHANGED <<customers, subscriptions, now, ticks, calls, reset, env, releases, held>>

\* the caller has taken the result
ResolveEnd ==
  /\ gw.pc = "done"
  /\ gw' = IdleGateway
  /\ UNCHANGED <<customers, subscriptions, now, ticks, calls, reset, env, releases, held>>

InitResolve ==
  /\ customers = [c \in CustomerIds |->
                    IF c = "cus_1" THEN [email |-> "one@example.com",
                                         metadata |-> LifetimeRecord.metadata]
                    ELSE [email |-> "two@example.com", metadata |-> OtherMetadata]]
  /\ subscriptions = [c \in CustomerIds |-> <<>>]
  /\ now = ResolveClock
  /\ ticks = 0
  /\ calls = [p \in Procs |-> IdleCall]
  /\ reset = IdleReset
  /\ gw = IdleGateway
  /\ held = NoToken
  /\ env = EnvGitHub
  /\ \E l \in ResolveListings : releases = [ok |-> TRUE, listing |-> l]

NextResolve ==
  \/ \E q \in ResolveQueries : Resolve(q)
  \/ ResolveEnd

SpecResolve == InitResolve /\ [][NextResolve]_vars

\* ------------------------------------------------------- getUpdateConfig alone
\* getUpdateConfig as the process it is: it answers from process.env at once
\* in mode env, and otherwise awaits the release host before it answers.
\* asked is the set of requests to the release host the call has sent; last is
\* the resolution completed before this one.
NoLast == [query |-> NoQuery, config |-> NoConfig, at |-> 0]
IdleConfig ==
  [pc |-> "idle", req |-> NoRequest, response |-> NoResponse, at |-> 0, asked |-> {},
   last |-> NoLast]

\* static artifacts with no UPDATE_SOURCE, with UPDATE_SOURCE=github, and with
\* a value that names no mode
EnvDefault == EnvOf(StaticArtifacts)
EnvGitHubStatic == EnvOf(StaticArtifacts \cup {<<Chars("UPDATE_SOURCE"), Chars("github")>>})
EnvOtherMode == EnvOf(StaticArtifacts \cup {<<Chars("UPDATE_SOURCE"), Chars("Both")>>})

ModeEnvs == {EnvStatic, EnvAuto, EnvGitHub, EnvDefault, EnvGitHubStatic, EnvOtherMode}

\* static configuration of the stable mac arm64 build in mode env, with the
\* given variables left out and the given ones added
ArtifactEnv(dropped, added) ==
  EnvOf({p \in StaticArtifacts : p[1] \notin dropped} \cup added
          \cup {<<Chars("UPDATE_SOURCE"), Chars("env")>>})
\* one of the four required values missing, blank or zero; the four present
\* but no file name to be had; an arch-optional build with one arch-specific
\* value; a file URL with a query and no FILE_NAME
ArtifactEnvs ==
  {ArtifactEnv({Chars("UPDATE_STABLE_MAC_ARM64_VERSION")}, {}),
   ArtifactEnv({Chars("UPDATE_STABLE_MAC_ARM64_FILE_URL")}, {}),
   ArtifactEnv({Chars("UPDATE_STABLE_MAC_ARM64_SHA512")},
               {<<Chars("UPDATE_STABLE_MAC_ARM64_SHA512"), Chars(" ")>>}),
   ArtifactEnv({Chars("UPDATE_STABLE_MAC_ARM64_SIZE")}, {}),
   ArtifactEnv({Chars("UPDATE_STABLE_MAC_ARM64_SIZE")},
               {<<Chars("UPDATE_STABLE_MAC_ARM64_SIZE"), Chars("0")>>}),
   ArtifactEnv({Chars("UPDATE_STABLE_MAC_ARM64_FILE_URL")},
               {<<Chars("UPDATE_STABLE_MAC_ARM64_FILE_URL"), Chars("https://cdn.test")>>}),
   ArtifactEnv({Chars("UPDATE_STABLE_MAC_ARM64_FILE_URL"), Chars("UPDATE_STABLE_MAC_ARM64_SHA512"),
                Chars("UPDATE_STABLE_MAC_ARM64_SIZE")},
               {<<Chars("UPDATE_STABLE_MAC_VERSION"), Chars("1.0.0")>>,
                <<Chars("UPDATE_STABLE_MAC_FILE_URL"), Chars("https://cdn.test/d/N.dmg?sig=1")>>,
                <<Chars("UPDATE_STABLE_MAC_SHA512"), Chars("c2hj")>>,
                <<Chars("UPDATE_STABLE_MAC_SIZE"), Chars("44")>>})}

\* a listing with defects: a draft that advertises the highest version, a
\* release whose manifest names a binary that only the next release carries,
\* and a release whose manifest spells its binary in another case
DefectiveListing ==
  <<[Release(Chars("v2.0.0"), FALSE, 9,
             Build(101, Chars("latest-mac.yml"), Chars("2.0.0"), Chars("N-2.0.0-arm64.dmg"), 9))
       EXCEPT !.draft = TRUE],
    Release(Chars("v1.9.0"), FALSE, 8,
            <<ManifestAsset(111, Chars("latest-mac.yml"),
                            ManifestDated(Chars("1.9.0"), Chars("N-1.8.0-arm64.dmg"), 8))>>),
    Release(Chars("v1.8.0"), FALSE, 7,
            <<ManifestAsset(121, Chars("latest-mac.yml"),
                            ManifestDated(Chars("1.8.0"), Chars("N-1.8.0-ARM64.dmg"), 7)),
              BinaryAsset(122, Chars("N-1.8.0-arm64.dmg"))>>)>>

\* the release host lists the releases, lists defective ones, lists none, or
\* does not answer
HostAnswers ==
  {Reachable, [ok |-> TRUE, listing |-> DefectiveListing], [ok |-> TRUE, listing |-> <<>>],
   Unreachable}

ConfigQueries ==
  {ResolveQuery(channel, Mac, Arm64, <<>>) : channel \in ALLOWED_CHANNELS}
  \cup {ResolveQuery(Beta, Mac, X64, <<>>), ResolveQuery(Stable, Chars("ios"), Arm64, <<>>)}

\* getGitHubUpdateConfig lines 496-505: the listing is requested once the
\* platform, the arch and the repository are known
HostAsked(platform, arch, gh) ==
  IF normalizePlatform(platform) = <<>> \/ normalizeArch(arch) = <<>> THEN {}
  ELSE IF gh.owner = <<>> \/ gh.repo = <<>> THEN {}
  ELSE {"releases.list"}

ConfigDone(q, config, asked, last) ==
  [pc |-> "done",
   req |-> [method |-> "GET", headers |-> NoHeaders, query |-> q],
   response |-> [status |-> 200, kind |-> "config", body |-> config],
   at |-> now, asked |-> asked, last |-> last]

\* getUpdateConfig up to its return (mode env) or its await (lines 693-700)
ConfigBegin(q) ==
  /\ gw.pc = "idle"
  /\ gw' = IF getUpdatesSourceMode = "env"
             THEN ConfigDone(q, getUpdateConfig(q.channel, q.platform, q.arch, q.manifest, now),
                             {}, gw.last)
             ELSE [pc |-> "github",
                   req |-> [method |-> "GET", headers |-> NoHeaders, query |-> q],
                   response |-> NoResponse, at |-> 0,
                   asked |-> HostAsked(q.platform, q.arch, getGitHubRepoConfig),
                   last |-> gw.last]
  /\ UNCHANGED <<customers, subscriptions, now, ticks, calls, reset, env, releases, held>>

\* the release host has answered: lines 701-710
ConfigReturn ==
  /\ gw.pc = "github"
  /\ gw' = ConfigDone(gw.req.query,
                      getUpdateConfig(gw.req.query.channel, gw.req.query.platform,
                                      gw.req.query.arch, gw.req.query.manifest, now),
                      gw.asked, gw.last)
  /\ UNCHANGED <<customers, subscriptions, now, ticks, calls, reset, env, releases, held>>

\* the caller has taken the result
ConfigEnd ==
  /\ gw.pc = "done"
  /\ gw' = [IdleConfig EXCEPT !.last = [query |-> gw.req.query,
                                        config |-> gw.response.body, at |-> gw.at]]
  /\ UNCHANGED <<customers, subscriptions, now, ticks, calls, reset, env, releases, held>>

InitConfig ==
  /\ customers = [c \in CustomerIds |->
                    IF c = "cus_1" THEN [email |-> "one@example.com",
                                         metadata |-> LifetimeRecord.metadata]
                    ELSE [email |-> "two@example.com", metadata |-> OtherMetadata]]
  /\ subscriptions = [c \in CustomerIds |-> <<>>]
  /\ now = 1
  /\ ticks = 0
  /\ calls = [p \in Procs |-> IdleCall]
  /\ reset = IdleReset
  /\ gw = IdleConfig
  /\ held = NoToken
  /\ env \in ModeEnvs \cup ArtifactEnvs
  /\ releases \in HostAnswers

NextConfig ==
  \/ \E q \in ConfigQueries : ConfigBegin(q)
  \/ ConfigReturn
  \/ ConfigEnd
  \/ Tick(GatewayTickStep)

SpecConfig == InitConfig /\ [][NextConfig]_vars

\* ----------------------------------------- the gateway while the host recovers
\* Mode auto with the static artifacts configured: the release host does not
\* answer at first and lists its releases from some instant on.
HostRecovers ==
  /\ releases = Unreachable
  /\ releases' = Reachable
  /\ UNCHANGED <<customers, subscriptions, now, ticks, calls, reset, env, gw, held>>

\* the licence of the machine is a subscription that is paid
SubscribedRecord ==
  [metadata |-> EmptyMetadata(KeyOne, "subscription"), listing |-> <<"active">>]

InitRecovery ==
  /\ InitStore(SubscribedRecord)
  /\ env = EnvAuto
  /\ releases = Unreachable

NextRecovery ==
  \/ NextGateway
  \/ HostRecovers

SpecRecovery == InitRecovery /\ [][NextRecovery]_vars

\* ----------------------------------- the gateway while the host is down
\* The release host does not answer, or answers non-2xx, for the whole run;
\* static artifacts are configured and the mode is auto or github, or nothing
\* is configured but the signing secret.
OutageEnvs == {EnvAuto, EnvGitHubStatic, EnvGitHub}

InitOutage ==
  /\ InitStore(SubscribedRecord)
  /\ env \in OutageEnvs
  /\ releases = Unreachable

SpecOutage == InitOutage /\ [][NextGateway]_vars

\* ------------------------------------------- upstream calls that fail
\* The record store may reject any request a validateLicenseRecord call
\* awaits.  The call then throws: pc "threw", nothing further is issued.
StoreOp(pc) ==
  IF pc = "find" THEN "customers.list"
  ELSE IF pc = "subscription" THEN "subscriptions.list"
  ELSE "customers.update"

StoreFails(p) ==
  /\ calls[p].pc \in {"find", "subscription", "update"}
  /\ calls' = [calls EXCEPT ![p] =
                 [Issue(calls[p], StoreOp(calls[p].pc))
                    EXCEPT !.pc = "threw", !.customer = NoCustomer, !.nowIso = 0]]
  /\ UNCHANGED <<customers, subscriptions, now, ticks, reset, gatewayVars>>

\* keys/validate.js lines 36-39: the catch of the validation endpoint
ValidationServerError ==
  [status |-> 500, body |-> [valid |-> FALSE, error |-> "Server error during validation"]]

ValidateCaught(p) ==
  /\ calls[p].pc = "threw"
  /\ calls' = [calls EXCEPT ![p] = [calls[p] EXCEPT !.pc = "caught",
                                                    !.result = ValidationServerError]]
  /\ UNCHANGED <<customers, subscriptions, now, ticks, reset, gatewayVars>>

\* the 500 has been sent
ValidateSent(p) ==
  /\ calls[p].pc = "caught"
  /\ calls' = [calls EXCEPT ![p] = IdleCall]
  /\ UNCHANGED <<customers, subscriptions, now, ticks, reset, gatewayVars>>

\* the failure reported as a missing configuration
HandlerError_NotFound(route) == Json(404, [error |-> "Update artifact not configured"])

\* download.js lines 389-405: the catch around the feed and the file handler
HandlerError(route) ==
  Json(500, [error |-> IF route = "feed" THEN "Could not generate updater feed"
                       ELSE "Could not serve updater download"])

\* requireValidUpdaterLicense threw: the handler's catch answers
GatewayAnswerThrown ==
  /\ gw.pc = "auth" /\ calls[GatewayProc].pc = "threw"
  /\ Respond(gw.req, Unsigned(HandlerError(Route(gw.req))))
  /\ UNCHANGED <<customers, subscriptions, now, ticks, calls, reset, env, releases>>

\* the process that calls the validation endpoint
EndpointProc == "p2"

InitFailures ==
  /\ InitStore(SubscribedRecord)
  /\ \/ env = EnvGitHub /\ releases = Reachable
     \/ env = EnvAuto /\ releases = Unreachable

\* one request at a time, to the download endpoint or to the validation endpoint
NextFailures ==
  \/ calls[EndpointProc].pc = "idle" /\ NextGateway
  \/ \E p \in Procs : StoreFails(p)
  \/ GatewayAnswerThrown
  \/ gw.pc = "idle" /\ ValidateCall(EndpointProc, KeyOne, HwOne, VersionOne, TRUE)
  \/ ValidateFind(EndpointProc)
  \/ ValidateSubscription(EndpointProc)
  \/ ValidateUpdate(EndpointProc)
  \/ ValidateReturn(EndpointProc)
  \/ ValidateCaught(EndpointProc)
  \/ ValidateSent(EndpointProc)

SpecFailures == InitFailures /\ [][NextFailures]_vars

\* Requests that need the record store, one at a time, when an upstream may
\* leave a call unanswered. The steps the validation endpoint takes by itself
\* and the end of a download response are taken whenever they can be; the
\* answers and the rejections of the record store may never come.
HandlerSteps ==
  \/ GatewayEnd
  \/ ValidateCaught(EndpointProc)
  \/ ValidateSent(EndpointProc)
  \/ ValidateReturn(EndpointProc)

NextHang ==
  \/ /\ calls[EndpointProc].pc = "idle"
     /\ \E req \in GatewayRequests : GatewayValidate(req)
  \/ gw.pc = "idle" /\ ValidateCall(EndpointProc, KeyOne, HwOne, VersionOne, TRUE)
  \/ \E p \in Procs : ValidateFind(p)
  \/ \E p \in Procs : ValidateSubscription(p)
  \/ \E p \in Procs : ValidateUpdate(p)
  \/ \E p \in Procs : StoreFails(p)
  \/ \E answer \in AssetHostAnswers : GatewayAnswerLicensed(answer)
  \/ GatewayAnswerThrown
  \/ HandlerSteps

SpecHang == InitFailures /\ [][NextHang]_vars /\ WF_vars(HandlerSteps)

\* ----------------------------------------------- the paginated customer list
\* stripe.customers.list answers page by page.  A store is the sequence of its
\* pages; every page but the last reports has_more, and a page may be empty.
MaxPages == 3

Listed(id, key) == [id |-> id, metadata |-> [license_key |-> key]]
NoListed == [id |-> "", metadata |-> [none |-> TRUE]]
PageData ==
  {<<>>,
   <<Listed("cus_a", KeyTwo)>>,
   <<Listed("cus_b", KeyOne)>>,
   <<Listed("cus_c", KeyOne)>>,
   <<Listed("cus_a", KeyTwo), Listed("cus_b", KeyOne)>>}

IdsOf(data) == {data[i].id : i \in 1..Len(data)}
DistinctIds(store) ==
  \A i, j \in 1..Len(store) : i # j => IdsOf(store[i]) \cap IdsOf(store[j]) = {}
PagedStores ==
  UNION {{store \in [1..n -> PageData] : DistinctIds(store)} : n \in 1..MaxPages}

\* the answer of stripe.customers.list with page i of the store
PageOf(store, i) == [data |-> store[i], has_more |-> i < Len(store)]

\* the index of the first customer of the page with that key, 0 when none has it
FirstWithKey(data, key) ==
  IF \E i \in 1..Len(data) : data[i].metadata.license_key = key
    THEN CHOOSE i \in 1..Len(data) :
           /\ data[i].metadata.license_key = key
           /\ \A j \in 1..(i - 1) : data[j].metadata.license_key # key
    ELSE 0

LastId(data, startingAfter) == IF data = <<>> THEN startingAfter ELSE data[Len(data)].id

\* _license-utils.js lines 46-62 with the callback of lines 70-76: one turn of
\* the while loop of listCustomersPaged on the page the store answered
ScanShared(scan, page, index, key) ==
  IF FirstWithKey(page.data, key) # 0
    THEN [scan EXCEPT !.found = page.data[FirstWithKey(page.data, key)],
                      !.page = index, !.requests = @ + 1, !.running = FALSE]
  ELSE [scan EXCEPT !.hasMore = page.has_more /\ page.data # <<>>,
                    !.startingAfter = LastId(page.data, @),
                    !.page = index, !.requests = @ + 1,
                    !.running = page.has_more /\ page.data # <<>>]

\* part_001 lines 58-75: one turn of the while loop of the validate-license handler
ScanLegacy(scan, page, index, key) ==
  [scan EXCEPT !.found = IF FirstWithKey(page.data, key) # 0
                           THEN page.data[FirstWithKey(page.data, key)] ELSE NoListed,
               !.hasMore = page.has_more,
               !.startingAfter = LastId(page.data, @),
               !.page = index, !.requests = @ + 1,
               !.running = page.has_more /\ FirstWithKey(page.data, key) = 0]

ScanTurn(loop, scan, page, index, key) ==
  IF loop = "shared" THEN ScanShared(scan, page, index, key)
  ELSE ScanLegacy(scan, page, index, key)

\* the state of the loop before its first turn
ScanStart ==
  [found |-> NoListed, hasMore |-> TRUE, startingAfter |-> "", page |-> 0,
   requests |-> 0, running |-> TRUE]

\* the key the lookup compares with: _license-utils.js line 66, part_001 line 39
LookupKey(loop, rawKey) ==
  IF loop = "shared" THEN normalizeLicenseKey(rawKey) ELSE toUpperCase(Trim(rawKey))

\* The pages the store may answer the next call with.  The call carries the
\* id that ended the last page that had one: after an empty page it repeats
\* the call before, and the store answers that page again or with the next.
AnswerIndexes(store, scan) ==
  IF scan.page = 0 THEN {1}
  ELSE IF store[scan.page] = <<>> THEN {scan.page, scan.page + 1}
  ELSE {scan.page + 1}

\* the list calls of one lookup that are followed
MaxRequests == MaxPages + 2

\* findCustomerByLicenseKey, or the handler of part_001, is called; a key that
\* is not well formed is answered without a list call (lines 67, 41-43)
LookupBegin(store, rawKey, loop) ==
  /\ gw.pc = "idle"
  /\ gw' = [pc |-> IF LICENSE_PATTERN(LookupKey(loop, rawKey)) THEN "list" ELSE "done",
            req |-> [store |-> store, key |-> LookupKey(loop, rawKey), loop |-> loop],
            response |-> ScanStart, at |-> 0]
  /\ UNCHANGED <<customers, subscriptions, now, ticks, calls, reset, env, releases, held>>

\* await stripe.customers.list(params) and the rest of the turn
ListPage ==
  /\ gw.pc = "list" /\ gw.response.requests < MaxRequests
  /\ \E index \in AnswerIndexes(gw.req.store, gw.response) :
       gw' = [gw EXCEPT
                !.response = ScanTurn(gw.req.loop, gw.response,
                                      PageOf(gw.req.store, index), index, gw.req.key),
                !.pc = IF ScanTurn(gw.req.loop, gw.response, PageOf(gw.req.store, index),
                                   index, gw.req.key).running
                         THEN "list" ELSE "done"]
  /\ UNCHANGED <<customers, subscriptions, now, ticks, calls, reset, env, releases, held>>

LookupEnd ==
  /\ gw.pc = "done"
  /\ gw' = IdleGateway
  /\ UNCHANGED <<customers, subscriptions, now, ticks, calls, reset, env, releases, held>>

LookupKeys == {KeyOne, KeyOneTyped, KeyUnknown, KeyMalformed}

InitPaging ==
  /\ InitStore(SubscribedRecord)
  /\ env = EnvGitHub
  /\ releases = Reachable

NextPaging ==
  \/ \E store \in PagedStores, rawKey \in LookupKeys, loop \in {"shared", "legacy"} :
       LookupBegin(store, rawKey, loop)
  \/ ListPage
  \/ LookupEnd

SpecPaging == InitPaging /\ [][NextPaging]_vars

\* The updater client and the license portal: once the client holds a token,
\* the owner of the license may reset its machine binding between two requests
\* of the client, so that the record the token was issued under is no longer
\* the record of the store.
OwnerSession == [cid |-> "cus_1", email |-> "one@example.com"]

InitRedeem ==
  /\ InitStore(SubscribedRecord)
  /\ env = EnvGitHub
  /\ releases = Reachable

\* the feed request of the licensed machine and the downloads with a token
RedeemRequests ==
  {req \in GatewayRequests :
     \/ req.query.t # NoToken
     \/ req.headers = LicensedHeaders /\ req.query = MacStableQuery}

NextRedeem ==
  \/ reset.pc = "idle" /\ \E req \in RedeemRequests : GatewayValidate(req)
  \/ /\ reset.pc = "idle"
     /\ \E req \in RedeemRequests, answer \in AssetHostAnswers : GatewayAnswer(req, answer)
  \/ \E answer \in AssetHostAnswers : GatewayAnswerLicensed(answer)
  \/ GatewayEnd
  \/ ValidateFind(GatewayProc)
  \/ ValidateSubscription(GatewayProc)
  \/ ValidateUpdate(GatewayProc)
  \/ Tick(GatewayTickStep)
  \/ gw.pc = "idle" /\ held # NoToken /\ ResetRetrieve(OwnerSession)
  \/ ResetUpdate
  \/ ResetReturn

SpecRedeem == InitRedeem /\ [][NextRedeem]_vars

\* One reset_machine request of the owner and one activation call on the
\* record of cus_1, their awaits interleaved in every order.  The record is a
\* subscription record, unbound or bound to the machine "ab".
RaceRecords ==
  {[metadata |-> [SubscribedRecord.metadata EXCEPT
                    !.license_hardware_id = h,
                    !.license_hardware_bound_at = IF h = <<>> THEN 0 ELSE 1],
    listing |-> SubscribedRecord.listing] : h \in {<<>>, HwOne}}

InitRace ==
  /\ \E r \in RaceRecords : InitStore(r)
  /\ env = EnvGitHub
  /\ releases = Unreachable

NextRace ==
  \/ \E hardwareId \in {HwOne, HwOneUpper, HwTwo} :
       ValidateCall("p1", KeyOne, hardwareId, VersionOne, TRUE)
  \/ ValidateFind("p1")
  \/ ValidateSubscription("p1")
  \/ ValidateUpdate("p1")
  \/ ResetRetrieve(OwnerSession)
  \/ ResetUpdate
  \/ Tick(LicenseTickStep)

SpecRace == InitRace /\ [][NextRace]_vars

\* --------------------------------- resets of one record, one after another
\* The owner of cus_1 asks for resets, each after the last one was answered,
\* while one caller activates the key; the clock passes the end of the
\* cooldown.  A handler that has its answer sends it.
NextCooldown ==
  \/ NextRace
  \/ ResetReturn
  \/ ValidateReturn("p1")

SpecCooldown == InitRace /\ [][NextCooldown]_vars /\ WF_vars(ResetReturn)

\* ------------------------------------- two callers on the same machine
\* Two callers whose calls overlap freely, both activating the key of cus_1
\* from one machine: the hardware ids they present normalise to the same id.
SameMachineRequests ==
  [key : {KeyOne}, hardwareId : {HwOne, HwOneUpper}, appVersion : {VersionOne},
   bindHardware : {TRUE}]

NextSameMachine ==
  \/ \E p \in Procs, r \in SameMachineRequests :
       ValidateCall(p, r.key, r.hardwareId, r.appVersion, r.bindHardware)
  \/ \E p \in Procs : ValidateFind(p)
  \/ \E p \in Procs : ValidateSubscription(p)
  \/ \E p \in Procs : ValidateUpdate(p)
  \/ \E p \in Procs : ValidateReturn(p)
  \/ Tick(LicenseTickStep)

SpecSameMachine == Init /\ [][NextSameMachine]_vars

\* =================================================================== claims
\* the step on which the call of p returns its verdict
Returns(p) == calls[p].pc # "done" /\ calls'[p].pc = "done"
\* the arguments of the call that returns on this step
ArgsOf(p) == calls'[p]
\* the record this call works on: the one it read, or is reading on this step
RecordOf(p) ==
  IF calls[p].pc \in {"subscription", "update"} THEN calls[p].customer
  ELSE findCustomerByLicenseKey(calls'[p].key)
HardwareOf(c) == customers[c].metadata.license_hardware_id
\* the record passes the revocation and subscription checks
PassesChecks(customer) ==
  /\ customer # NoCustomer
  /\ customer.metadata.license_revoked # "true"
  /\ PlanOf(customer.metadata) = "subscription" => hasActiveSubscription(customer.id)

\* C1: with validateLicenseRecord calls that do not overlap, a non-empty
\* hardwareId of a record changes only by the update of reset_machine, which
\* sets it to empty.
C1_BindingChangesOnlyByReset ==
  [][\A c \in CustomerIds :
       (HardwareOf(c) # <<>> /\ customers'[c].metadata.license_hardware_id # HardwareOf(c))
         => /\ customers'[c].metadata.license_hardware_id = <<>>
            /\ reset.pc = "update" /\ reset'.pc = "done" /\ reset.customer.id = c]_vars

\* C1 witness: the record was bound, reset, and bound again by a later call.
C1_Witness ==
  /\ customers["cus_1"].metadata.license_reset_count = 1
  /\ HardwareOf("cus_1") = HwTwo
  /\ calls["p1"].pc = "done" /\ calls["p1"].result.status = 200

\* C2: of two overlapping bindHardware calls for the same record that present
\* different hardware ids, at most one returns success.
C2_AtMostOneConcurrentBind ==
  \A p, q \in Procs :
    (/\ p # q
     /\ calls[p].pc = "done" /\ calls[q].pc = "done"
     /\ calls[p].bindHardware /\ calls[q].bindHardware
     /\ normalizeLicenseKey(calls[p].key) = normalizeLicenseKey(calls[q].key)
     /\ normalizeHardwareId(calls[p].hardwareId) # normalizeHardwareId(calls[q].hardwareId))
    => ~(calls[p].result.status = 200 /\ calls[q].result.status = 200)

\* C8 as stated: a bindHardware call whose hardware id differs from the
\* record's non-empty bound hardwareId returns MachineMismatch and writes nothing.
C8_MismatchWhenIdDiffers ==
  [][\A p \in Procs :
       LET rec == RecordOf(p) IN
       (/\ Returns(p) /\ ArgsOf(p).bindHardware
        /\ rec # NoCustomer
        /\ rec.metadata.license_hardware_id # <<>>
        /\ ArgsOf(p).hardwareId # rec.metadata.license_hardware_id)
       => /\ calls'[p].result =
               MachineMismatchVerdict(normalizeHardwareId(rec.metadata.license_hardware_id))
          /\ calls[p].pc # "update"
          /\ customers' = customers]_vars

\* C8 amended: for a record that is not revoked (and whose subscription, for a
\* subscription plan, is active), a bindHardware call with a non-empty
\* hardware id whose normalised form differs from the record's non-empty bound
\* hardwareId returns MachineMismatch (409, machine_mismatch, manage_url) and
\* issues no write.
C8_MismatchLeavesRecord ==
  [][\A p \in Procs :
       LET rec == RecordOf(p)
           bound == normalizeHardwareId(rec.metadata.license_hardware_id)
           presented == normalizeHardwareId(ArgsOf(p).hardwareId)
       IN
       (/\ Returns(p) /\ ArgsOf(p).bindHardware
        /\ PassesChecks(rec)
        /\ bound # <<>> /\ presented # <<>> /\ presented # bound)
       => /\ calls'[p].result.status = 409
          /\ calls'[p].result.body.valid = FALSE
          /\ calls'[p].result.body.code = "machine_mismatch"
          /\ calls'[p].result.body.manage_url = MACHINE_RESET_URL
          /\ calls[p].pc # "update"
          /\ customers' = customers]_vars

\* C8 witness: a call has returned MachineMismatch for a record bound to
\* another machine.
C8_Witness ==
  /\ calls["p1"].pc = "done" /\ calls["p1"].result.status = 409
  /\ normalizeHardwareId(calls["p1"].hardwareId) = HwTwo
  /\ HardwareOf("cus_1") = HwOne

\* C9: for a record that passes the revocation and subscription checks and
\* has no hardwareId, a bindHardware call with a non-empty hardware id h
\* returns 200, valid, machine_locked, and leaves the record bound to the
\* normalised h with hardwareBoundAt the time read by this call.
C9_FirstBind ==
  [][\A p \in Procs :
       LET rec == RecordOf(p) IN
       (/\ Returns(p) /\ ArgsOf(p).bindHardware /\ ArgsOf(p).hardwareId # <<>>
        /\ PassesChecks(rec)
        /\ rec.metadata.license_hardware_id = <<>>)
       => /\ calls'[p].result.status = 200
          /\ calls'[p].result.body.valid = TRUE
          /\ calls'[p].result.body.machine_locked = TRUE
          /\ calls[p].pc = "update"
          /\ customers'[rec.id].metadata.license_hardware_id =
               normalizeHardwareId(ArgsOf(p).hardwareId)
          /\ customers'[rec.id].metadata.license_hardware_bound_at = calls[p].nowIso
          /\ calls[p].nowIso > 0 /\ calls[p].nowIso <= now]_vars

\* C9 witness: a call that presented "AB " has bound the unbound record to
\* "ab" after the clock had advanced.
C9_Witness ==
  /\ calls["p1"].pc = "done" /\ calls["p1"].result.status = 200
  /\ calls["p1"].bindHardware /\ calls["p1"].hardwareId = <<"A", "B">>
  /\ HardwareOf("cus_1") = HwOne
  /\ customers["cus_1"].metadata.license_hardware_bound_at > 1

\* the fields a refresh may touch are set as the claim says, the others kept
RefreshedOnly(before, after, appVersion, nowIso) ==
  after = [before EXCEPT
             !.license_last_validation_at = nowIso,
             !.license_last_app_version =
                IF appVersion # <<>> THEN appVersion
                ELSE before.license_last_app_version]

\* C10 as stated: a bindHardware call that presents the hardware id already
\* bound to the record succeeds and only refreshes lastValidationAt and
\* lastAppVersion.
C10_SameIdSucceeds ==
  [][\A p \in Procs :
       LET rec == RecordOf(p) IN
       (/\ Returns(p) /\ ArgsOf(p).bindHardware
        /\ rec # NoCustomer
        /\ rec.metadata.license_hardware_id # <<>>
        /\ normalizeHardwareId(ArgsOf(p).hardwareId) = rec.metadata.license_hardware_id)
       => /\ calls'[p].result.status = 200
          /\ calls[p].pc = "update"
          /\ RefreshedOnly(rec.metadata, customers'[rec.id].metadata,
                           ArgsOf(p).appVersion, calls[p].nowIso)]_vars

\* C10 amended: for a record that is not revoked (and whose subscription, for
\* a subscription plan, is active), a bindHardware call that presents the
\* hardware id already bound succeeds, keeps hardwareId and hardwareBoundAt,
\* sets lastValidationAt to the time read by the call and lastAppVersion to
\* the presented version (the previous one when none is presented), and
\* changes no other field of the record it read.
C10_SameIdRefreshesOnly ==
  [][\A p \in Procs :
       LET rec == RecordOf(p) IN
       (/\ Returns(p) /\ ArgsOf(p).bindHardware
        /\ PassesChecks(rec)
        /\ rec.metadata.license_hardware_id # <<>>
        /\ normalizeHardwareId(ArgsOf(p).hardwareId) = rec.metadata.license_hardware_id)
       => /\ calls'[p].result.status = 200
          /\ calls'[p].result.body.valid = TRUE
          /\ calls[p].pc = "update"
          /\ customers'[rec.id].metadata.license_hardware_id = rec.metadata.license_hardware_id
          /\ customers'[rec.id].metadata.license_hardware_bound_at =
               rec.metadata.license_hardware_bound_at
          /\ calls[p].nowIso > 0 /\ calls[p].nowIso <= now
          /\ RefreshedOnly(rec.metadata, customers'[rec.id].metadata,
                           ArgsOf(p).appVersion, calls[p].nowIso)]_vars

\* C10 witness: the bound record was validated again from the same machine,
\* later, without an app version: the version recorded before is kept.
C10_Witness ==
  /\ calls["p1"].pc = "done" /\ calls["p1"].result.status = 200
  /\ calls["p1"].bindHardware /\ calls["p1"].appVersion = <<>>
  /\ normalizeHardwareId(calls["p1"].hardwareId) = HardwareOf("cus_1")
  /\ customers["cus_1"].metadata.license_last_app_version = VersionOne
  /\ customers["cus_1"].metadata.license_last_validation_at >
       customers["cus_1"].metadata.license_hardware_bound_at
  /\ customers["cus_1"].metadata.license_hardware_bound_at > 0

\* ------------------------------------------------- the gateway, observed
\* the download endpoint has answered a request it routed to the file handler
FileAnswered == gw.pc = "done" /\ Route(gw.req) = "file"
\* the download endpoint has answered a request it routed to the feed handler
FeedAnswered == gw.pc = "done" /\ Route(gw.req) = "feed"

ScopeFields == {"channel", "platform", "arch", "artifact"}
\* the payload the feed signed into the token the client holds
Minted == held[1].b64.json
\* the answered request presented the token exactly as the feed minted it
PresentsHeld == FileAnswered /\ held # NoToken /\ gw.req.query.t = held
\* the scoping values as the client sent them that differ from the minted ones
SentDiffers == {f \in ScopeFields : gw.req.query[f] # Minted[f]}
\* the scoping values as the handler normalized them that differ from the minted ones
NormalizedDiffers == {f \in ScopeFields : FileTarget(gw.req.query)[f] # Minted[f]}
\* the response hands out the artifact
Served(response) == response.kind \in {"redirect", "stream", "end"}
TokenInvalid == Json(401, [error |-> "Invalid or expired download token"])
TokenScopeMismatch == Json(401, [error |-> "Download token scope mismatch"])

\* the token of the request carries the signature of the gateway's secret
\* over a body that is a payload with an expiry in the past
ExpiredSigned(token) ==
  /\ Len(token) >= 2
  /\ token[2] = createHmac(getUpdateSecret, token[1])
  /\ ParsesToObject(fromBase64Url(token[1]))
  /\ ExpOf(token[1].b64.json) # 0
  /\ ExpOf(token[1].b64.json) < gw.at

\* the validateLicenseRecord call the gateway made for the answered request
GatewayCall == calls[GatewayProc]
\* that call was made with hardware binding for the credentials of the
\* answered request, and returned the success verdict
ValidatedForRequest ==
  /\ GatewayCall.pc = "done"
  /\ GatewayCall.bindHardware
  /\ GatewayCall.key = extractUpdaterAuth(gw.req.headers).key
  /\ GatewayCall.hardwareId = extractUpdaterAuth(gw.req.headers).hardwareId
  /\ GatewayCall.result.status = 200
  /\ GatewayCall.result.body.valid

\* C3 as stated: a token minted by the feed, presented before exp with a
\* request in which exactly one of the four values sent by the client differs
\* from the minted tuple, is never answered with a redirect or a byte stream.
C3_RejectedWhenSentValueDiffers ==
  (PresentsHeld /\ gw.at <= Minted.exp /\ Cardinality(SentDiffers) = 1)
    => ~Served(gw.response)

\* C3 amended: a token minted by the feed, presented before exp with a request
\* in which exactly one of the four values differs from the minted tuple after
\* the handler has normalized it, is refused with status 400 or 401 and no
\* redirect or byte stream is produced.
C3_RejectedWhenNormalizedValueDiffers ==
  (PresentsHeld /\ gw.at <= Minted.exp /\ Cardinality(NormalizedDiffers) = 1)
    => /\ ~Served(gw.response)
       /\ gw.response.kind = "json"
       /\ gw.response.status \in {400, 401}

\* a minted token presented before exp for another channel is refused as a
\* scope violation
C3_Witness ==
  /\ PresentsHeld /\ gw.at <= Minted.exp
  /\ NormalizedDiffers = {"channel"}
  /\ gw.response = TokenScopeMismatch

\* C4: round trip: the token minted by the feed, presented to the file handler
\* with the identical four values, the same secret and a clock not after exp,
\* is not answered with 401.
C4_RoundTrip ==
  (PresentsHeld /\ gw.at <= Minted.exp /\ SentDiffers = {})
    => gw.response.status # 401

\* C5 as stated: a token with a valid signature whose exp lies in the past is
\* answered with TokenInvalid, whatever its scoping fields.
C5_ExpiredIsTokenInvalid ==
  (FileAnswered /\ ExpiredSigned(gw.req.query.t))
    => gw.response = TokenInvalid

\* C5 amended: for a request whose platform, arch and artifact are non-empty
\* after normalization, a token with a valid signature whose exp lies in the
\* past is answered with TokenInvalid, never with TokenScopeMismatch, whether
\* or not its scoping fields match the request.
C5_ExpiredIsTokenInvalidWhenWellFormed ==
  (/\ FileAnswered /\ ExpiredSigned(gw.req.query.t)
   /\ ~IsInvalidDownload(FileTarget(gw.req.query)))
    => gw.response = TokenInvalid

\* an expired token whose channel does not match the request is answered
\* with TokenInvalid
C5_Witness ==
  /\ PresentsHeld /\ ExpiredSigned(held)
  /\ NormalizedDiffers = {"channel"}
  /\ gw.response = TokenInvalid

\* C6: every feed response with status 200 (the manifest that carries the
\* token, the HEAD answer, the debug document) answers a request for whose
\* license key and hardware id validateLicenseRecord, called with
\* bindHardware = true, has returned status 200 with valid = true.
C6_TokenOnlyAfterValidation ==
  (FeedAnswered /\ gw.response.status = 200) => ValidatedForRequest

\* the feed has written a manifest whose download URL carries the signed token
C6_Witness ==
  /\ FeedAnswered /\ gw.response.kind = "yaml"
  /\ held # NoToken /\ gw.response.body.manifest.path.t = held
  /\ ValidatedForRequest

\* C7: when the validateLicenseRecord call made for a feed request returns a
\* failure verdict, the feed response is the verdict's status and body.
C7_FailurePropagatedVerbatim ==
  (FeedAnswered /\ GatewayCall.pc = "done" /\ GatewayCall.result.status # 200)
    => /\ gw.response.kind = "json"
       /\ gw.response.status = GatewayCall.result.status
       /\ gw.response.body = GatewayCall.result.body

\* the feed has relayed the machine-mismatch verdict
C7_Witness ==
  /\ FeedAnswered /\ GatewayCall.pc = "done"
  /\ GatewayCall.result.status = 409
  /\ gw.response = Json(409, GatewayCall.result.body)

\* ------------------------------------------- the verdicts of returned calls
\* the call of p has returned and its verdict has not been taken yet
Returned(p) == calls[p].pc = "done"
\* the key of the call is well formed after normalization
WellFormedKey(call) ==
  normalizeLicenseKey(call.key) # <<>> /\ LICENSE_PATTERN(normalizeLicenseKey(call.key))
\* no record of the store carries the key of the call
OnNoRecord(call) ==
  \A c \in CustomerIds : customers[c].metadata.license_key # normalizeLicenseKey(call.key)
\* the call asks for a binding without naming a machine
BindsWithoutHardware(call) ==
  call.bindHardware /\ normalizeHardwareId(call.hardwareId) = <<>>
\* the call has sent no update to the record store
WroteNothing(call) == "customers.update" \notin call.ops

\* C11 as stated: a call with a well-formed key that no record carries returns
\* NotFound (404, valid = false) and writes no record, whatever the hardware
\* id, the app version and the bindHardware flag.
C11_UnknownKeyNotFound ==
  \A p \in Procs :
    (Returned(p) /\ WellFormedKey(calls[p]) /\ OnNoRecord(calls[p]))
      => /\ calls[p].result.status = 404
         /\ ~calls[p].result.body.valid
         /\ WroteNothing(calls[p])

\* C11 amended: a call with a well-formed key that no record carries writes no
\* record and returns NotFound (404, valid = false), except that a call with
\* bindHardware = true and an empty hardware id returns MissingHardware (400)
\* before the lookup.
C11_UnknownKeyNotFoundOrMissingHardware ==
  \A p \in Procs :
    (Returned(p) /\ WellFormedKey(calls[p]) /\ OnNoRecord(calls[p]))
      => /\ calls[p].result.status = IF BindsWithoutHardware(calls[p]) THEN 400 ELSE 404
         /\ ~calls[p].result.body.valid
         /\ WroteNothing(calls[p])

\* a binding call for a key on no record has returned NotFound after the listing
C11_Witness ==
  /\ Returned("p1") /\ WellFormedKey(calls["p1"]) /\ OnNoRecord(calls["p1"])
  /\ calls["p1"].bindHardware /\ ~BindsWithoutHardware(calls["p1"])
  /\ calls["p1"].result.status = 404
  /\ calls["p1"].ops = {"customers.list"}

\* the call of p takes a step: it begins, resumes after an await, or returns
StepOf(p) == calls'[p] # calls[p]
\* the call that takes the step
CallOf(p) == IF calls[p].pc = "idle" THEN calls'[p] ELSE calls[p]

\* C12: every step of a validateLicenseRecord call made with bindHardware =
\* false leaves every field of every license record as it was, also when the
\* call returns success.
C12_NoBindNoWrite ==
  [][\A p \in Procs :
       (StepOf(p) /\ ~CallOf(p).bindHardware)
         => /\ customers' = customers
            /\ calls'[p].pc # "update"
            /\ WroteNothing(calls'[p])]_vars

\* a call with bindHardware = false that presented a hardware id for an
\* unbound record has returned success, and the record is still unbound and
\* was never validated
C12_Witness ==
  /\ Returned("p1") /\ ~calls["p1"].bindHardware
  /\ normalizeLicenseKey(calls["p1"].key) = KeyOne
  /\ normalizeHardwareId(calls["p1"].hardwareId) = HwOne
  /\ calls["p1"].result.status = 200 /\ calls["p1"].result.body.valid
  /\ HardwareOf("cus_1") = <<>>
  /\ customers["cus_1"].metadata.license_last_validation_at = 0

\* the record that carries the key of the call
RecordFor(call) == findCustomerByLicenseKey(call.key)
\* the key of the call is that of a revoked record
OnRevokedRecord(call) ==
  RecordFor(call) # NoCustomer /\ RecordFor(call).metadata.license_revoked = "true"
RevokedVerdict ==
  [status |-> 403, body |-> [valid |-> FALSE, error |-> "License has been revoked"]]
MissingHardwareVerdict ==
  [status |-> 400, body |-> [valid |-> FALSE, error |-> "Hardware ID is required for activation"]]

\* C13 as stated: a call for a revoked record always returns Revoked (403),
\* whatever the plan, the subscriptions and the hardware id; the subscription
\* listing is not asked for and the record is not written.
C13_RevokedAlways ==
  \A p \in Procs :
    (Returned(p) /\ OnRevokedRecord(calls[p]))
      => /\ calls[p].result = RevokedVerdict
         /\ calls[p].ops = {"customers.list"}

\* C13 amended: a call for a revoked record returns Revoked (403) after the
\* customer listing alone, whatever the plan, the subscriptions and the
\* hardware id, except that a call with bindHardware = true and an empty
\* hardware id returns MissingHardware (400) before any lookup; in neither
\* case is the subscription listing asked for or the record written.
C13_RevokedUnlessMissingHardware ==
  \A p \in Procs :
    (Returned(p) /\ OnRevokedRecord(calls[p]))
      => IF BindsWithoutHardware(calls[p])
           THEN calls[p].result = MissingHardwareVerdict /\ calls[p].ops = {}
           ELSE calls[p].result = RevokedVerdict /\ calls[p].ops = {"customers.list"}

\* a binding call for a revoked subscription record without an active
\* subscription has returned Revoked
C13_Witness ==
  /\ Returned("p1") /\ OnRevokedRecord(calls["p1"])
  /\ PlanOf(RecordFor(calls["p1"]).metadata) = "subscription"
  /\ ~hasActiveSubscription(RecordFor(calls["p1"]).id)
  /\ calls["p1"].bindHardware /\ ~BindsWithoutHardware(calls["p1"])
  /\ calls["p1"].result = RevokedVerdict

\* the key of the call is that of a record that is not revoked and whose plan
\* is subscription
OnSubscriptionRecord(call) ==
  /\ RecordFor(call) # NoCustomer
  /\ RecordFor(call).metadata.license_revoked # "true"
  /\ RecordFor(call).metadata.plan = "subscription"
\* one of the customer's subscriptions is active, trialing or past_due
HasLiveSubscription(c) ==
  \E i \in 1..Len(subscriptions[c]) : subscriptions[c][i] \in {"active", "trialing", "past_due"}

\* C14 as stated: a call for a non-revoked subscription record succeeds only
\* if one of the customer's subscriptions is active, trialing or past_due;
\* otherwise it returns SubscriptionInactive (403) and writes nothing.
C14_SubscriptionGate ==
  \A p \in Procs :
    (Returned(p) /\ OnSubscriptionRecord(calls[p]))
      => /\ calls[p].result.status = 200 => HasLiveSubscription(RecordFor(calls[p]).id)
         /\ ~HasLiveSubscription(RecordFor(calls[p]).id)
              => /\ calls[p].result = SubscriptionInactiveVerdict
                 /\ WroteNothing(calls[p])

\* C14 amended: a call for a non-revoked subscription record succeeds only if
\* one of the customer's subscriptions is active, trialing or past_due;
\* otherwise it writes nothing and returns SubscriptionInactive (403), or
\* MissingHardware (400) when it has bindHardware = true and an empty
\* hardware id.
C14_SubscriptionGateAfterInputChecks ==
  \A p \in Procs :
    (Returned(p) /\ OnSubscriptionRecord(calls[p]))
      => /\ calls[p].result.status = 200 => HasLiveSubscription(RecordFor(calls[p]).id)
         /\ ~HasLiveSubscription(RecordFor(calls[p]).id)
              => /\ calls[p].result = IF BindsWithoutHardware(calls[p])
                                        THEN MissingHardwareVerdict
                                        ELSE SubscriptionInactiveVerdict
                 /\ WroteNothing(calls[p])

\* a binding call for a subscription record whose only subscription is
\* canceled has returned SubscriptionInactive, and the record is unbound
C14_Witness ==
  /\ Returned("p1") /\ OnSubscriptionRecord(calls["p1"])
  /\ subscriptions["cus_1"] = <<"canceled">>
  /\ calls["p1"].bindHardware /\ ~BindsWithoutHardware(calls["p1"])
  /\ calls["p1"].result = SubscriptionInactiveVerdict
  /\ calls["p1"].ops = {"customers.list", "subscriptions.list"}
  /\ HardwareOf("cus_1") = <<>>

\* the key of the call, trimmed and in upper case, has the form
\* NEXUS-XXXX-XXXX-XXXX-XXXX
MatchesTrimmedUpper(call) == LICENSE_PATTERN(toUpperCase(Trim(call.key)))
InvalidFormatVerdict ==
  [status |-> 400, body |-> [valid |-> FALSE, error |-> "Invalid license key format"]]

\* C15: a call whose key, trimmed and in upper case, does not have the form
\* NEXUS-XXXX-XXXX-XXXX-XXXX returns InvalidFormat (400) having issued no
\* customer listing, no subscription listing and no update.
C15_MalformedKeyRejectedFirst ==
  \A p \in Procs :
    (calls[p].pc # "idle" /\ ~MatchesTrimmedUpper(calls[p]))
      => /\ Returned(p)
         /\ calls[p].result = InvalidFormatVerdict
         /\ calls[p].ops = {}

\* a binding call with a malformed key and a hardware id has returned
\* InvalidFormat
C15_Witness ==
  /\ Returned("p1") /\ calls["p1"].key = KeyMalformed
  /\ calls["p1"].bindHardware /\ ~BindsWithoutHardware(calls["p1"])
  /\ calls["p1"].result = InvalidFormatVerdict
  /\ calls["p1"].ops = {}

\* ---- C16: the masked hardware id of a verdict ----
\* the hardware id bound to the record of the call once the step is taken
BoundAfter(p) == normalizeHardwareId(customers'[RecordOf(p).id].metadata.license_hardware_id)
\* the verdict the call returns on this step carries a masked hardware id
ReturnsMasked(p) ==
  /\ Returns(p)
  /\ "hardware_id_masked" \in DOMAIN calls'[p].result.body
  /\ RecordOf(p) # NoCustomer
  /\ BoundAfter(p) # <<>>
\* the first six characters, an ellipsis and the last four characters
FirstSixLastFour(hardwareId) ==
  SliceTo(hardwareId, 6) \o <<".", ".", ".">> \o SliceLast(hardwareId, 4)

\* C16: the hardware_id_masked of a verdict is never the complete bound
\* hardware id: it shows the first 6 and the last 4 characters of it only.
C16_MaskedNeverFullId ==
  [][\A p \in Procs :
       ReturnsMasked(p) =>
         /\ calls'[p].result.body.hardware_id_masked # BoundAfter(p)
         /\ calls'[p].result.body.hardware_id_masked = FirstSixLastFour(BoundAfter(p))]_vars
\* the same for the ids of more than ten characters, which the code does mask
C16_LongIdsAreMasked ==
  [][\A p \in Procs :
       (ReturnsMasked(p) /\ Len(BoundAfter(p)) > 10) =>
         /\ calls'[p].result.body.hardware_id_masked # BoundAfter(p)
         /\ calls'[p].result.body.hardware_id_masked = FirstSixLastFour(BoundAfter(p))]_vars

\* ---- C17..C20: release-host resolution ----
\* getGitHubUpdateConfig has returned
Resolved == gw.pc = "done" /\ gw.response.kind = "config"
ResolvedConfig == gw.response.body
\* the candidates that survive among the visits: manifest fetched and parsed,
\* artifact compatible, binary asset present
Survivors(visits, channel, platform, arch, dateNow) ==
  {candidate \in {[visit |-> visits[i],
                   found |-> CandidateConfig(visits[i], channel, platform, arch, dateNow)] :
                    i \in 1..Len(visits)} :
     candidate.found.kind = "config"}
\* the surviving candidates of every release scanned for a query
SurvivorsOn(channel, platform, arch, manifest, dateNow) ==
  Survivors(ManifestVisits(listReleasesForChannel(releases.listing, channel),
                           channel, platform, arch, manifest),
            channel, platform, arch, dateNow)
SurvivorsFor(q, dateNow) ==
  SurvivorsOn(normalizeChannel(q.channel), normalizePlatform(q.platform),
              normalizeArch(q.arch), normalizeManifestName(q.manifest), dateNow)
VersionsOf(survivors) == {c.found.config.version : c \in survivors}
SurvivingVersions == VersionsOf(SurvivorsFor(gw.req.query, gw.at))
\* no surviving candidate has a version strictly greater than that of config
IsMaximalAmong(config, survivors) ==
  \A c \in survivors : compareLooseSemver(c.found.config.version, config.version) <= 0
\* what is returned when the surviving versions are exactly those given
YieldsOf(config, survivors, versions, version) ==
  VersionsOf(survivors) = versions => config.version = version
MaximalAmong(config, survivors) ==
  /\ survivors # {} => config # NoConfig
  /\ config # NoConfig => IsMaximalAmong(config, survivors)
  /\ YieldsOf(config, survivors,
             {Chars("1.2.0"), Chars("1.2.0-beta.3"), Chars("1.3.0")}, Chars("1.3.0"))
  /\ YieldsOf(config, survivors, {Chars("1.2.0"), Chars("1.2.0-beta.1")}, Chars("1.2.0"))

\* C17: the configuration release-host resolution returns has a maximal
\* version: no surviving candidate of any scanned release compares strictly
\* greater under compareLooseSemver, in whatever order the releases are listed;
\* {1.2.0, 1.2.0-beta.3, 1.3.0} yields 1.3.0 and {1.2.0, 1.2.0-beta.1} yields 1.2.0.
C17_MaximalVersion ==
  Resolved => MaximalAmong(ResolvedConfig, SurvivorsFor(gw.req.query, gw.at))
\* 1.3.0 is returned although its release is listed last of three
C17_Witness ==
  /\ Resolved
  /\ SurvivingVersions = {Chars("1.2.0"), Chars("1.2.0-beta.3"), Chars("1.3.0")}
  /\ releases.listing[3] = Release130
  /\ ResolvedConfig.version = Chars("1.3.0")

\* the instant a release was published
PublishedAt(release) == DateParse(release.published_at).value
\* config comes from a release published no earlier than that of any
\* surviving candidate whose version compares equal to its own
LatestAmongTies(config, survivors) ==
  \A c, d \in survivors :
    (c.found.config = config
       /\ compareLooseSemver(d.found.config.version, config.version) = 0)
    => PublishedAt(d.visit.release) <= PublishedAt(c.visit.release)

\* C18: when several surviving candidates have versions that compare equal,
\* release-host resolution returns the one whose release has the most recent
\* published_at among them.
C18_TieGoesToLatestPublished ==
  Resolved => LatestAmongTies(ResolvedConfig, SurvivorsFor(gw.req.query, gw.at))

\* the (release, manifest asset) pairs getGitHubUpdateConfig visits for a query
VisitsOn(channel, platform, arch, manifest) ==
  ManifestVisits(listReleasesForChannel(releases.listing, channel),
                 channel, platform, arch, manifest)
VisitsFor(q) ==
  VisitsOn(normalizeChannel(q.channel), normalizePlatform(q.platform),
           normalizeArch(q.arch), normalizeManifestName(q.manifest))
\* the names of the manifest assets visited, in lower case
VisitedNames(visits) == {toLowerCase(visits[i].manifestAsset.name) : i \in 1..Len(visits)}
\* a (beta, mac, arm64) query with the hint beta-mac.yml
IsBetaMacArmHint(q) ==
  /\ normalizeChannel(q.channel) = Beta
  /\ normalizePlatform(q.platform) = Mac
  /\ normalizeArch(q.arch) = Arm64
  /\ normalizeManifestName(q.manifest) = Chars("beta-mac.yml")
HintedMacArmNames ==
  {Chars("beta-mac.yml"), Chars("beta-mac-arm64.yml"), Chars("latest-mac-arm64.yml"),
   Chars("latest-mac.yml")}
\* config is the candidate of one of the visits
IsCandidateOf(config, survivors) == \E c \in survivors : c.found.config = config
\* the manifests visited under a hint, and what is returned from them
HintPins(q, visits, config, survivors) ==
  /\ IsBetaMacArmHint(q) => VisitedNames(visits) \subseteq HintedMacArmNames
  /\ normalizeManifestName(q.manifest) # <<>> =>
       /\ VisitedNames(visits) \subseteq
            Range(RequestedAliases(normalizeManifestName(q.manifest),
                                   normalizeChannel(q.channel),
                                   normalizePlatform(q.platform), normalizeArch(q.arch)))
       /\ config # NoConfig => IsCandidateOf(config, survivors)

\* C19: with the manifest hint beta-mac.yml on a (beta, mac, arm64) query, the
\* only manifest assets visited in any release are those named beta-mac.yml,
\* beta-mac-arm64.yml, latest-mac-arm64.yml or latest-mac.yml, so an x64-only
\* manifest is never a candidate, whatever version it advertises; with any
\* hint, only the hint and its aliases are visited: neither the pattern
\* matches nor the remaining manifests are added.
C19_HintPinsManifests ==
  Resolved => HintPins(gw.req.query, VisitsFor(gw.req.query), ResolvedConfig,
                       SurvivorsFor(gw.req.query, gw.at))
\* the release with the x64 manifests advertising 9.0.0 and 9.1.0 is scanned
\* and the candidate of its beta-mac.yml is returned
C19_Witness ==
  /\ Resolved
  /\ IsBetaMacArmHint(gw.req.query)
  /\ releases.listing = <<ReleaseWithX64>>
  /\ ResolvedConfig # NoConfig
  /\ ResolvedConfig.version = Chars("1.1.0-beta.1")
\* the same query without the hint returns the candidate of an x64 manifest
C19_WithoutHint ==
  /\ Resolved
  /\ gw.req.query = ResolveQuery(Beta, Mac, Arm64, <<>>)
  /\ releases.listing = <<ReleaseWithX64>>
  /\ ResolvedConfig # NoConfig
  /\ ResolvedConfig.version = Chars("9.1.0")

\* the file name, in lower case, contains / ends with the marker
Carries(fileName, marker) == includes(toLowerCase(fileName), Chars(marker))
EndsIn(fileName, marker) == endsWith(toLowerCase(fileName), Chars(marker))
MacMarked(fileName) ==
  Carries(fileName, "mac") \/ Carries(fileName, "darwin") \/ EndsIn(fileName, ".dmg")
LinuxMarked(fileName) ==
  Carries(fileName, "linux") \/ EndsIn(fileName, ".appimage") \/ EndsIn(fileName, ".deb")
WinMarked(fileName) ==
  Carries(fileName, "win") \/ EndsIn(fileName, ".exe") \/ Carries(fileName, "nsis")
ArmMarked(fileName) == Carries(fileName, "arm64") \/ Carries(fileName, "aarch64")
X64Marked(fileName) == Carries(fileName, "x64") \/ Carries(fileName, "amd64")
\* the file name carries a marker of the platform
PlatformMarked(fileName, platform) ==
  IF platform = Mac THEN MacMarked(fileName)
  ELSE IF platform = Linux THEN LinuxMarked(fileName)
  ELSE WinMarked(fileName) /\ ~MacMarked(fileName) /\ ~LinuxMarked(fileName)
\* the file name carries the marker of the other architecture and not its own
OnlyOtherArch(fileName, arch) ==
  IF arch = Arm64 THEN X64Marked(fileName) /\ ~ArmMarked(fileName)
  ELSE ArmMarked(fileName) /\ ~X64Marked(fileName)
FitsRequest(fileName, platform, arch) ==
  /\ PlatformMarked(fileName, platform)
  /\ OnlyOtherArch(fileName, arch) => Carries(fileName, "universal")
  /\ platform = Mac => fileName # Chars("Nexus-1.0.35-win-x64.exe")

\* C20: the fileName of every configuration release-host resolution returns
\* for (platform, arch) carries a marker of that platform (and, for win, none
\* of mac or linux) and does not carry the marker of the other architecture
\* alone unless it contains "universal"; Nexus-1.0.35-win-x64.exe is never
\* returned for mac, whatever version its manifest advertises.
C20_ReturnedArtifactCompatible ==
  (Resolved /\ ResolvedConfig # NoConfig) =>
    FitsRequest(ResolvedConfig.fileName, normalizePlatform(gw.req.query.platform),
                normalizeArch(gw.req.query.arch))
\* the mac manifest advertising 9.9.9 for the Windows installer is scanned
\* first and the 1.2.0 disk image is returned
C20_Witness ==
  /\ Resolved
  /\ gw.req.query = ResolveQuery(Stable, Mac, Arm64, <<>>)
  /\ releases.listing = <<ReleaseMisnamed, Release120>>
  /\ ResolvedConfig # NoConfig
  /\ ResolvedConfig.fileName = Chars("N-1.2.0-arm64.dmg")
\* an x64 query is answered with a build marked arm64 and universal
C20_UniversalWitness ==
  /\ Resolved
  /\ gw.req.query = ResolveQuery(Stable, Mac, X64, <<>>)
  /\ ResolvedConfig # NoConfig
  /\ ResolvedConfig.fileName = Chars("N-9.1-arm64-universal.dmg")

\* ---- C21, C22, C30: getUpdateConfig ----
\* getUpdateConfig has returned
Configured == gw.pc = "done" /\ gw.response.kind = "config" /\ "asked" \in DOMAIN gw
\* the value the operator configured as UPDATE_SOURCE, '' when none
ConfiguredMode == toLowerCase(cleanText(ProcessEnv(Chars("UPDATE_SOURCE")), 16))
\* env-sourced or absent, the release host not contacted
EnvOnly(config, asked) == config.source \in {"env", "none"} /\ asked = {}
\* release-host-sourced or absent
HostOnly(config) == config.source \in {"github", "none"}
\* the result, given what the release host and the static configuration yield
HostElseEnv(config, githubConfig, envConfig) ==
  config = IF githubConfig # NoConfig THEN githubConfig ELSE envConfig
\* the release host is queried first, the static configuration is the fallback
FallsBack(q, config, asked, dateNow) ==
  /\ (normalizePlatform(q.platform) # <<>> /\ normalizeArch(q.arch) # <<>>)
       => "releases.list" \in asked
  /\ HostElseEnv(config,
                 getGitHubUpdateConfig(q.channel, q.platform, q.arch,
                                       normalizeManifestName(q.manifest), dateNow),
                 getEnvUpdateConfig(q.channel, q.platform, q.arch, dateNow))
ModeHonoured(mode, hostOnlyModes, fallbackModes, q, config, asked, dateNow) ==
  /\ mode = Chars("env") => EnvOnly(config, asked)
  /\ mode \in hostOnlyModes => HostOnly(config)
  /\ mode \in fallbackModes => FallsBack(q, config, asked, dateNow)
\* the values of UPDATE_SOURCE the model configures that name no mode
OtherModes == {Chars("auto"), Chars("both")}

\* C21 as stated: getUpdateConfig honours the mode: env gives an env-sourced
\* result or none and no request to the release host; github gives a
\* release-host-sourced result or none; auto, and no configured mode, gives
\* the release host's result and, when it has none, the static configuration.
C21_ModeHonoured ==
  Configured => ModeHonoured(ConfiguredMode, {Chars("github")}, OtherModes \cup {<<>>},
                             gw.req.query, gw.response.body, gw.asked, gw.at)
\* C21, amended: the same, except that with no configured mode the result is
\* that of mode github: release-host-sourced or none, without fallback; the
\* fallback is that of every configured value other than env and github.
C21_ModeHonouredDefaultGitHub ==
  Configured => ModeHonoured(ConfiguredMode, {Chars("github"), <<>>}, OtherModes,
                             gw.req.query, gw.response.body, gw.asked, gw.at)
\* no mode is configured, the release host does not answer, the static
\* configuration has the artifact, and nothing is returned
C21_Witness ==
  /\ Configured
  /\ ConfiguredMode = <<>>
  /\ ~releases.ok
  /\ getEnvUpdateConfig(gw.req.query.channel, gw.req.query.platform, gw.req.query.arch,
                        gw.at) # NoConfig
  /\ gw.response.body = NoConfig
  /\ gw.asked = {"releases.list"}
\* in mode auto the static configuration is returned after the release host was asked
C21_FallbackWitness ==
  /\ Configured
  /\ ConfiguredMode = Chars("auto")
  /\ gw.asked = {"releases.list"}
  /\ gw.response.body.source = "env"

\* the query of this resolution was resolved before, at another clock time
ResolvedTwice == Configured /\ gw.last.query = gw.req.query /\ gw.last.at # gw.at

\* C22: resolving the same (channel, platform, arch, manifest hint) twice
\* against the same release listing, manifests and env configuration, at two
\* clock times, yields configurations equal in every field, releaseDate included.
C22_SameConfigAtAnyTime == ResolvedTwice => gw.response.body = gw.last.config
\* the same for the fields other than releaseDate, which holds
C22_SameButReleaseDate ==
  (ResolvedTwice /\ gw.response.body # NoConfig /\ gw.last.config # NoConfig) =>
    [gw.response.body EXCEPT !.releaseDate = EmptyDate]
      = [gw.last.config EXCEPT !.releaseDate = EmptyDate]

\* ---- C23..C26: the download endpoint, continued ----
\* a download request without a token has been answered with the artifact
TokenlessServed ==
  FileAnswered /\ FileTarget(gw.req.query).token = NoToken /\ Served(gw.response)
\* the configuration resolved for the request names the requested artifact
NamesArtifact(updateConfig, target) ==
  updateConfig # NoConfig /\ updateConfig.fileName = target.artifact
ResolvedNames(target, dateNow) ==
  NamesArtifact(getUpdateConfig(target.channel, target.platform, target.arch,
                                target.manifestHint, dateNow),
                target)

\* C23: a download request without a signed token is answered with a redirect
\* or the bytes only if validateLicenseRecord, called with bindHardware = true
\* for the credentials of that request, returned success and the requested
\* artifact is the fileName of the configuration resolved for the request.
C23_TokenlessNeedsLicenseAndArtifact ==
  TokenlessServed => /\ ValidatedForRequest
                     /\ ResolvedNames(FileTarget(gw.req.query), gw.at)
\* a licensed request without a token has been redirected to the artifact
C23_Witness ==
  /\ TokenlessServed
  /\ gw.response.kind = "redirect"
  /\ ValidatedForRequest
  /\ gw.req.headers = LicensedHeaders

\* the token the feed minted from the static configuration is presented
\* unchanged, not after its exp, with the tuple it was minted for
EnvTokenPasses ==
  /\ PresentsHeld
  /\ Minted.source = "env"
  /\ gw.at <= Minted.exp
  /\ NormalizedDiffers = {}
\* the redirect to the file URL configured for the tuple of the request
RedirectToConfigured(target, dateNow) ==
  Redirect([url |-> getEnvUpdateConfig(target.channel, target.platform, target.arch,
                                       dateNow).fileUrl])

\* C24: a token of source env that passes the signature, expiry and scope
\* checks, the static configuration being what it was when the token was
\* issued, is answered with a 302 redirect to the configured file URL,
\* whatever the release host returns at that instant.
C24_EnvTokenRedirects ==
  EnvTokenPasses => gw.response = RedirectToConfigured(FileTarget(gw.req.query), gw.at)
\* such a token is redirected while the release host does not answer
C24_RedirectedWhileUnreachable ==
  /\ EnvTokenPasses
  /\ ~releases.ok
  /\ gw.response = RedirectToConfigured(FileTarget(gw.req.query), gw.at)

\* the token has two segments and the second is not the signature of the first
BadSignature(token) ==
  Len(token) >= 2 /\ token[2] # createHmac(getUpdateSecret, token[1])
\* the payload of the token, or that of a stale download URL when the first
\* segment decodes to none
PayloadBase(token) ==
  IF ParsesToObject(fromBase64Url(token[1])) THEN token[1].b64.json
  ELSE [source |-> "env", channel |-> Beta, platform |-> Mac, arch |-> Arm64,
        artifact |-> Chars("b.dmg"), exp |-> 0]
\* the same payload, expired one millisecond ago and correctly signed
ExpiredTwin(token, dateNow) ==
  signToken([PayloadBase(token) EXCEPT !.exp = dateNow - 1], getUpdateSecret)
\* the answer of the file handler to the request with another token
AnswerWithToken(req, token, dateNow) ==
  handleUpdaterFile([req EXCEPT !.query.t = token], MissingCredentials, dateNow, "redirect")

\* C25: the response of the download endpoint to a token with a bad signature
\* is the response it gives, at the same instant, to the same request with a
\* correctly signed token that has expired: same status, same body.
C25_BadSignatureAsExpired ==
  (FileAnswered /\ BadSignature(gw.req.query.t))
    => gw.response = AnswerWithToken(gw.req, ExpiredTwin(gw.req.query.t, gw.at), gw.at)
\* the minted payload under a foreign signature, on a well-formed request, is
\* answered like the expired token: 401 and the one message
C25_Witness ==
  /\ FileAnswered /\ held # NoToken
  /\ gw.req.query.t = <<held[1], createHmac(OtherSecret, held[1])>>
  /\ ~IsInvalidDownload(FileTarget(gw.req.query))
  /\ gw.response = TokenInvalid
  /\ AnswerWithToken(gw.req, ExpiredTwin(gw.req.query.t, gw.at), gw.at) = TokenInvalid

\* the feed has answered with a token: the manifest, or the answer to HEAD
FeedMinted ==
  FeedAnswered /\ gw.response.status = 200 /\ gw.response.kind \in {"yaml", "end"}
\* verifyToken accepts the token at that reading of the clock
Accepts(token, dateNow) == verifyToken(token, getUpdateSecret, dateNow) \notin {NoPayload, Thrown}
\* readings of the clock up to, at and after exp
ClocksAround(exp) == {0, 1, exp - 1, exp, exp + 1, exp + ttlMs}

\* C26: every token the feed mints has exp = the issue time + 7,200,000 ms,
\* whatever the channel, platform, arch and provenance; verifyToken accepts it
\* at every clock value up to and including exp and rejects it at every later one.
C26_TwoHourWindow ==
  /\ FeedMinted => Minted.exp = gw.at + 7200000
  /\ held # NoToken =>
       \A dateNow \in ClocksAround(Minted.exp) \cup {now} :
         Accepts(held, dateNow) <=> dateNow <= Minted.exp
\* the token is presented at the very millisecond of its exp and is served
C26_Witness ==
  /\ PresentsHeld
  /\ gw.at = Minted.exp
  /\ Minted.exp = 7200001
  /\ Served(gw.response)
\* one millisecond later it is refused
C26_RefusedAfterExp ==
  /\ PresentsHeld
  /\ gw.at = Minted.exp + 1
  /\ gw.response = TokenInvalid

\* ---- C27
\* the call of p is a completed bindHardware call for the key of cus_1
BindDone(p) ==
  /\ calls[p].pc = "done" /\ calls[p].bindHardware
  /\ normalizeLicenseKey(calls[p].key) = KeyOne
  /\ normalizeHardwareId(calls[p].hardwareId) # <<>>
Succeeded(p) == calls[p].result.status = 200 /\ calls[p].result.body.valid

\* C27: two overlapping bindHardware calls for the same valid record that
\* present the same hardware id both succeed, however their reads and writes
\* interleave, and once both have completed the record is bound to exactly
\* that hardware id.
C27_SameIdBothSucceed ==
  /\ \A p \in Procs :
       (BindDone(p) /\ PassesChecks(Customer("cus_1"))) => Succeeded(p)
  /\ \A p, q \in Procs :
       (/\ p # q /\ BindDone(p) /\ BindDone(q)
        /\ PassesChecks(Customer("cus_1"))
        /\ normalizeHardwareId(calls[p].hardwareId) = normalizeHardwareId(calls[q].hardwareId))
       => /\ Succeeded(p) /\ Succeeded(q)
          /\ HardwareOf("cus_1") = normalizeHardwareId(calls[p].hardwareId)

\* C27 witness: p1 has bound the record and returned success while p2, which
\* read the record before that write, still holds the unbound copy it is
\* about to write back.
C27_Witness ==
  /\ BindDone("p1") /\ Succeeded("p1")
  /\ HardwareOf("cus_1") = HwOne
  /\ calls["p2"].pc = "update"
  /\ calls["p2"].customer.metadata.license_hardware_id = <<>>
  /\ normalizeHardwareId(calls["p2"].hardwareId) = HwOne
\* both calls have completed with success and the record is bound to the id
C27_BothCompleted ==
  /\ BindDone("p1") /\ Succeeded("p1")
  /\ BindDone("p2") /\ Succeeded("p2")
  /\ calls["p1"].hardwareId # calls["p2"].hardwareId
  /\ "customers.update" \in calls["p1"].ops /\ "customers.update" \in calls["p2"].ops
  /\ HardwareOf("cus_1") = HwOne

\* ---- C28
\* the releases of the listing that are not drafts and carry, or do not carry,
\* the prerelease flag
ListedVisible(prerelease) ==
  {i \in 1..Len(releases.listing) :
     IsVisible(releases.listing[i]) /\ releases.listing[i].prerelease = prerelease}
\* config was taken from a release of the fallback partition of the channel
\* only if the preferred partition is empty
FromPreferredElseFallback(channel, config, survivors, stableListed, betaListed) ==
  \A c \in survivors :
    c.found.config = config =>
      /\ (channel = Stable /\ c.visit.release.prerelease) => stableListed = {}
      /\ (channel = Beta /\ ~c.visit.release.prerelease) => betaListed = {}

\* C28: for channel stable, release-host resolution returns an artifact of a
\* prerelease-flagged release only when the listing has no non-draft release
\* without the flag; for channel beta, an artifact of a non-prerelease release
\* only when the listing has no non-draft prerelease-flagged release.
C28_FallbackOnlyWhenNonePreferred ==
  (Resolved /\ ResolvedConfig # NoConfig) =>
    FromPreferredElseFallback(normalizeChannel(gw.req.query.channel), ResolvedConfig,
                              SurvivorsFor(gw.req.query, gw.at),
                              ListedVisible(FALSE), ListedVisible(TRUE))

\* C28, channel stable alone: an artifact of a prerelease-flagged release is
\* returned only when no non-draft release without the flag is listed.
C28_StableNeverPrerelease ==
  (Resolved /\ ResolvedConfig # NoConfig
     /\ normalizeChannel(gw.req.query.channel) = Stable) =>
    FromPreferredElseFallback(Stable, ResolvedConfig, SurvivorsFor(gw.req.query, gw.at),
                              ListedVisible(FALSE), ListedVisible(TRUE))

\* ---- C29
\* the manifests of a release as parseManifestYml reads them
ParsedManifestsOf(release, dateNow) ==
  {parseManifestYml(release.assets[i].text, dateNow) : i \in 1..Len(release.assets)}
    \ {NoManifest}
\* the asset is named as the manifest names its file, in any case, or as the
\* URL-decoded file name
NamedAs(asset, fileName) ==
  \/ toLowerCase(asset.name) = toLowerCase(fileName)
  \/ /\ ~decodeURIComponent(toLowerCase(fileName)).threw
     /\ toLowerCase(asset.name) = decodeURIComponent(toLowerCase(fileName)).text
\* the release carries the binary the manifest names
CarriesBinaryOf(release, parsed) ==
  \E i \in 1..Len(release.assets) : NamedAs(release.assets[i], parsed.fileName)
\* config was read from this manifest of this release
ReadFrom(config, release, parsed) ==
  /\ config.releaseTag = cleanText(release.tag_name, 120)
  /\ config.version = parsed.version /\ config.fileName = parsed.fileName
  /\ config.sha512 = parsed.sha512 /\ config.size = parsed.size
\* config refers to one non-draft release of the listing: one of its manifests
\* and the asset of it that manifest names
FromOneRelease(config, listing, dateNow) ==
  \E r \in 1..Len(listing) :
    /\ ~listing[r].draft
    /\ \E parsed \in ParsedManifestsOf(listing[r], dateNow) : ReadFrom(config, listing[r], parsed)
    /\ \E i \in 1..Len(listing[r].assets) :
         /\ listing[r].assets[i].id = config.binaryAssetId
         /\ NamedAs(listing[r].assets[i], config.fileName)
\* no manifest whose binary its own release does not carry gave config
NeverFromMissingBinary(config, listing, dateNow) ==
  \A r \in 1..Len(listing) :
    \A parsed \in ParsedManifestsOf(listing[r], dateNow) :
      ~CarriesBinaryOf(listing[r], parsed) => ~ReadFrom(config, listing[r], parsed)
HostSourced == Configured /\ gw.response.body.source = "github"

\* C29: every release-host-sourced configuration returned refers to a
\* non-draft release, was parsed from a manifest asset of that release, and
\* its binaryAssetId is the id of an asset of that same release named as the
\* manifest names its file (in any case, or after URL-decoding); a manifest
\* whose binary is missing from its own release never gives the result.
C29_BinaryFromSameRelease ==
  HostSourced =>
    /\ FromOneRelease(gw.response.body, releases.listing, gw.at)
    /\ NeverFromMissingBinary(gw.response.body, releases.listing, gw.at)

\* C29 witness: 1.8.0 is returned, with the asset its release carries under a
\* name in another case, although a draft advertises 2.0.0 and the manifest of
\* v1.9.0 names that same binary.
C29_Witness ==
  /\ HostSourced
  /\ releases.listing = DefectiveListing
  /\ gw.response.body.version = Chars("1.8.0")
  /\ gw.response.body.releaseTag = Chars("v1.8.0")
  /\ gw.response.body.binaryAssetId = 122
\* the binary is found under its URL-decoded name
C29_DecodedWitness ==
  /\ HostSourced
  /\ gw.response.body.fileName = Chars("N%20mac.dmg")
  /\ gw.response.body.binaryAssetId = 22

\* ---- C30
\* the value configured for a tuple: that of the arch-specific variable, else
\* that of the arch-optional one, without the surrounding blanks
ConfiguredFor(channel, platform, arch, suffix) ==
  LET tuple == Chars("UPDATE_") \o toUpperCase(channel) \o Chars("_") \o toUpperCase(platform)
      withArch == tuple \o Chars("_") \o toUpperCase(arch) \o Chars("_") \o Chars(suffix)
      withoutArch == tuple \o Chars("_") \o Chars(suffix)
  IN Trim(IF withArch \in DOMAIN env /\ env[withArch] # <<>> THEN env[withArch]
          ELSE IF withoutArch \in DOMAIN env THEN env[withoutArch] ELSE <<>>)
\* the four required values as configured
RequiredFor(channel, platform, arch) ==
  [version |-> ConfiguredFor(channel, platform, arch, "VERSION"),
   fileUrl |-> ConfiguredFor(channel, platform, arch, "FILE_URL"),
   sha512 |-> ConfiguredFor(channel, platform, arch, "SHA512"),
   size |-> ConfiguredFor(channel, platform, arch, "SIZE"),
   fileName |-> ConfiguredFor(channel, platform, arch, "FILE_NAME")]
IsNonZeroSize(text) ==
  /\ text # <<>> /\ \A i \in 1..Len(text) : text[i] \in Range(Digits)
  /\ \E i \in 1..Len(text) : text[i] # "0"
AllFour(required) ==
  /\ required.version # <<>> /\ required.fileUrl # <<>> /\ required.sha512 # <<>>
  /\ IsNonZeroSize(required.size)
\* the last path segment of the file URLs configured in the model
LastSegmentIs(fileUrl, url, segment, fileName) ==
  fileUrl = Chars(url) => fileName = Chars(segment)
NamedFromUrl(fileUrl, fileName) ==
  /\ fileName = getFileNameFromUrl(fileUrl)
  /\ LastSegmentIs(fileUrl, "https://cdn.test/d/N%20x.dmg", "N%20x.dmg", fileName)
  /\ LastSegmentIs(fileUrl, "https://cdn.test/d/N.dmg?sig=1", "N.dmg", fileName)
\* config carries the values configured, all four of them present
CarriesConfigured(config, required) ==
  /\ AllFour(required)
  /\ config.version = required.version /\ config.fileUrl = required.fileUrl
  /\ config.sha512 = required.sha512 /\ ToDecimal(config.size) = required.size
  /\ IF required.fileName # <<>> THEN config.fileName = required.fileName
     ELSE NamedFromUrl(config.fileUrl, config.fileName)
EnvResolution(mode, config, required) ==
  /\ config.source = "env" => CarriesConfigured(config, required)
  /\ (mode = Chars("env") /\ ~AllFour(required)) => config = NoConfig

\* C30: env-sourced resolution returns a configuration only if version,
\* fileUrl, sha512 and a non-zero size are all configured for the tuple (each
\* read from the arch-specific variable, else from the arch-optional one); if
\* one of the four is missing the result is absent; the fileName of a result
\* is the configured FILE_NAME, else the last path segment of fileUrl.
C30_EnvNeedsAllFour ==
  Configured =>
    EnvResolution(ConfiguredMode, gw.response.body,
                  RequiredFor(normalizeChannel(gw.req.query.channel),
                              normalizePlatform(gw.req.query.platform),
                              normalizeArch(gw.req.query.arch)))

\* C30 witness: the version is read from the arch-specific variable, the
\* other three from the arch-optional ones, the file name from the URL.
C30_Witness ==
  /\ Configured /\ ConfiguredMode = Chars("env")
  /\ gw.response.body.source = "env"
  /\ gw.response.body.version = Chars("1.2.0")
  /\ gw.response.body.sha512 = Chars("c2hj")
  /\ gw.response.body.fileName = Chars("N.dmg")
\* absent for want of one value although the other three are configured
C30_AbsentWitness ==
  /\ Configured /\ ConfiguredMode = Chars("env")
  /\ gw.response.body = NoConfig
  /\ normalizePlatform(gw.req.query.platform) = Mac
  /\ normalizeChannel(gw.req.query.channel) = Stable
  /\ Chars("UPDATE_STABLE_MAC_ARM64_SIZE") \in DOMAIN env
  /\ env[Chars("UPDATE_STABLE_MAC_ARM64_SIZE")] = Chars("0")
\* absent although the four are configured: the URL has no path segment
C30_NoFileNameWitness ==
  /\ Configured /\ ConfiguredMode = Chars("env")
  /\ gw.response.body = NoConfig
  /\ AllFour(RequiredFor(normalizeChannel(gw.req.query.channel),
                         normalizePlatform(gw.req.query.platform),
                         normalizeArch(gw.req.query.arch)))

\* ---- C31
\* the feed answered a licensed, well-formed request without debug diagnostics
\* while the release host was failing
FeedDuringOutage ==
  /\ FeedAnswered /\ ~releases.ok
  /\ ValidatedForRequest
  /\ FeedTarget(gw.req.query).platform # <<>>
  /\ ~FeedTarget(gw.req.query).debugRequested
\* the feed's answer when the release host yields nothing: the static
\* artifact in mode auto when one is configured, else the 404 result
OutageAnswer(mode, target, envConfig, response, token) ==
  /\ response.status < 500
  /\ IF mode = "auto" /\ envConfig # NoConfig
       THEN /\ response.status = 200 /\ response.kind \in {"yaml", "end"}
            /\ token # NoToken
            /\ token[1].b64.json.source = "env"
            /\ token[1].b64.json.artifact = envConfig.fileName
       ELSE response = Json(404, [error |-> NotConfigured(target)])
OutageAnswerFor(mode, target, response, token, dateNow) ==
  OutageAnswer(mode, target,
               getEnvUpdateConfig(target.channel, target.platform, target.arch, dateNow),
               response, token)

C31_FallbackWitness ==
  /\ FeedDuringOutage
  /\ getUpdatesSourceMode = "auto"
  /\ gw.response.status = 200
  /\ held[1].b64.json.source = "env"

\* ---- C32
\* the outcome of requireValidUpdaterLicense for the answered request
AuthOfAnswered ==
  IF calls[GatewayProc].pc = "done" THEN AuthOutcome(calls[GatewayProc].result)
  ELSE MissingCredentials
\* the record store rejected a request made for the answered gateway request
RecordStoreFailed == gw.pc = "done" /\ calls[GatewayProc].pc = "threw"
\* the record store rejected a request made for the validation endpoint,
\* which has answered
EndpointFailed == calls[EndpointProc].pc = "caught"
\* the answer is the one given when the artifact host fails, and the artifact
\* host was asked: another answer of it gives another response
AnsweredAsFailing(response, whenFailing, whenServing) ==
  response = whenFailing /\ whenServing # whenFailing
ArtifactHostFailed ==
  /\ FileAnswered /\ calls[GatewayProc].pc # "threw"
  /\ AnsweredAsFailing(gw.response,
                       handleUpdaterFile(gw.req, AuthOfAnswered, gw.at, "not-found"),
                       handleUpdaterFile(gw.req, AuthOfAnswered, gw.at, "ok"))
\* the release host failed while the feed resolved the update for a licensed request
ReleaseHostFailed ==
  /\ FeedAnswered /\ ~releases.ok
  /\ ValidatedForRequest
  /\ FeedTarget(gw.req.query).platform # <<>>
  /\ getUpdatesSourceMode # "env"
IsServerError(status) == status >= 500 /\ status <= 599
\* failures of the record store and of the artifact host are answered 5xx
StoreAndArtifactFailuresAre5xx ==
  /\ RecordStoreFailed => IsServerError(gw.response.status)
  /\ EndpointFailed => IsServerError(calls[EndpointProc].result.status)
  /\ ArtifactHostFailed => IsServerError(gw.response.status)
\* a call that threw issues no further request to the record store
NoRepeatAfterFailure ==
  \A p \in Procs :
    calls[p].pc \in {"threw", "caught"} =>
      calls'[p].ops = calls[p].ops \/ calls'[p] = IdleCall

C32_ArtifactWitness ==
  /\ ArtifactHostFailed /\ PresentsHeld
  /\ gw.response.status = 500
\* the validation endpoint answered 500
C32_EndpointWitness ==
  /\ EndpointFailed
  /\ calls[EndpointProc].result = ValidationServerError
\* the release host failed and the feed answered with the static artifact
C32_ReleaseHostWitness == ReleaseHostFailed /\ gw.response.status = 200

\* ---- C33
\* process p awaits an answer of the record store
AwaitsStore(p) == calls[p].pc \in {"find", "subscription", "update"}
\* the validation endpoint has a request it has not answered
EndpointPending == calls[EndpointProc].pc # "idle"

\* C33: every feed, download and validation request eventually receives a
\* response, even when an upstream never answers a call: the wait for each
\* upstream call ends (it is answered, it fails, or it is abandoned after a
\* bounded wait), and a validation request is then answered.
C33_EveryRequestAnswered ==
  /\ \A p \in Procs : AwaitsStore(p) ~> ~AwaitsStore(p)
  /\ EndpointPending ~> ~EndpointPending
\* a feed request whose validation awaits the customer listing of the record store
C33_AwaitingStore ==
  /\ gw.pc = "auth" /\ Route(gw.req) = "feed"
  /\ calls[GatewayProc].pc = "find"

\* ---- C34
\* the body and the signature segment of a presented token
BodyOf(token) == IF Len(token) >= 1 THEN token[1] ELSE EmptySegment
SignatureOf(token) == IF Len(token) >= 2 THEN token[2] ELSE EmptySegment
\* the body is not the base64url text of the JSON of an object
BodyUnreadable(body) == ~ParsesToObject(fromBase64Url(body))
\* one of the four defects: a segment missing, a signature that is not the
\* HMAC of the body, an unreadable body, an exp that is missing or has passed
FailsVerification(body, signature, dateNow) ==
  \/ body = EmptySegment \/ signature = EmptySegment
  \/ signature # createHmac(getUpdateSecret, body)
  \/ BodyUnreadable(body)
  \/ ExpOf(fromBase64Url(body).json) = 0
  \/ dateNow > ExpOf(fromBase64Url(body).json)
DefectiveToken(token, dateNow) ==
  FailsVerification(BodyOf(token), SignatureOf(token), dateNow)
\* bodies the server never signs, under a correct signature: text that is not
\* base64url, text that is not JSON, JSON that is no object, an object without
\* exp, an object whose exp passed a millisecond ago
OddBodies(dateNow) ==
  {GarbageSegment,
   toBase64Url([text |-> "update"]),
   toBase64Url(JSONstringify([scalar |-> 1])),
   toBase64Url(JSONstringify([source |-> "env", artifact |-> Chars("a.dmg")])),
   toBase64Url(JSONstringify([source |-> "env", artifact |-> Chars("a.dmg"),
                              exp |-> dateNow - 1]))}
SignedOddTokens(dateNow) ==
  {<<body, createHmac(getUpdateSecret, body)>> : body \in OddBodies(dateNow)}
\* a signature as long as a digest in characters and longer in bytes
IsWideSignature(signature) ==
  /\ SegmentLength(signature) = HmacDigestLength
  /\ SegmentBytes(signature) # HmacDigestLength
\* the file handler has answered a well-formed request that carries a token
TokenAnswered ==
  /\ FileAnswered /\ getUpdateSecret # <<>>
  /\ ~IsInvalidDownload(FileTarget(gw.req.query))
  /\ FileTarget(gw.req.query).token # NoToken
PresentedToken == FileTarget(gw.req.query).token

C34_ThrownWitness ==
  /\ TokenAnswered /\ held # NoToken
  /\ PresentedToken = <<held[1], WideSegment>>
  /\ gw.response = ServerError
\* the minted token presented after its exp, answered 401
C34_ExpiredWitness ==
  /\ TokenAnswered /\ held # NoToken
  /\ PresentedToken = held /\ gw.at > Minted.exp
  /\ gw.response = TokenInvalid

\* ---- C35
\* a lookup with a well-formed key is under way or has returned
Looking == gw.pc \in {"list", "done"} /\ LICENSE_PATTERN(gw.req.key)
LookupReturned == gw.pc = "done" /\ LICENSE_PATTERN(gw.req.key)
\* the pages of the store that hold a customer with the key
PagesWithKey(store, key) == {i \in 1..Len(store) : FirstWithKey(store[i], key) # 0}

\* C35: the lookup returns the record whenever any page of the listing holds a
\* customer with the normalized key, reports not-found only after every page
\* has been scanned, and terminates for every finite store, also when a page
\* is empty while reporting has_more: it makes no more list calls than the
\* store has pages.
C35_FindsOrScansEveryPage ==
  /\ Looking => gw.response.requests <= Len(gw.req.store)
  /\ LookupReturned =>
       /\ PagesWithKey(gw.req.store, gw.req.key) # {}
            => /\ gw.response.found # NoListed
               /\ gw.response.found.metadata.license_key = gw.req.key
       /\ gw.response.found = NoListed => gw.response.page = Len(gw.req.store)
\* listCustomersPaged has stopped at an empty page that reported has_more,
\* short of the page that holds the key
C35_StoppedAtEmptyPage ==
  /\ LookupReturned /\ gw.req.loop = "shared"
  /\ gw.response.found = NoListed
  /\ gw.req.store[gw.response.page] = <<>>
  /\ gw.response.page < Len(gw.req.store)
  /\ PagesWithKey(gw.req.store, gw.req.key) # {}

\* ---- C36
\* the file handler has handed out the artifact to a request that carried a token
ServedOnTokenPath ==
  /\ FileAnswered
  /\ FileTarget(gw.req.query).token # NoToken
  /\ Served(gw.response)
\* the step hands a new token to the client: a feed response mints it
Mints == held' # held

\* C36: every download served on the token path is preceded by a feed
\* response that minted a token with exactly the payload the download
\* presents, and that feed response was preceded by a successful
\* hardware-bound validation of the license of its request.
C36_ServedAfterMintAfterValidation ==
  /\ [](ServedOnTokenPath =>
          /\ held # NoToken
          /\ verifyToken(FileTarget(gw.req.query).token, getUpdateSecret, gw.at) = Minted)
  /\ [][Mints => /\ gw.pc = "auth" /\ Route(gw.req) = "feed" /\ ValidatedForRequest
                 /\ gw'.pc = "done" /\ gw'.req = gw.req /\ gw'.response.status = 200
                 /\ held' # NoToken]_vars
\* the minted token, presented within its lifetime, is redirected to the artifact
C36_Witness ==
  /\ ServedOnTokenPath /\ held # NoToken
  /\ gw.req.query.t = held
  /\ gw.response.status = 302
  /\ gw.at <= Minted.exp

\* ---- C37
\* the record of cus_1 is no longer bound to the machine the token was issued to
ReboundSinceIssue == customers["cus_1"].metadata.license_hardware_id # HwOne
\* the step answers a file request that carries a token
AnswersTokenRequest ==
  /\ gw.pc # "done" /\ gw'.pc = "done"
  /\ gw'.req.query.t # NoToken
  /\ gw'.req.query.mode = <<>>
\* what handleUpdaterFile answers to the request from the request, the clock,
\* the configuration and the release host alone
AnswersWithoutRecords ==
  {handleUpdaterFile(gw.req, MissingCredentials, gw.at, answer) : answer \in AssetHostAnswers}

\* C37: a download request that carries a token neither reads nor writes a
\* license record: the step that answers it issues no request to the record
\* store and leaves the records as they are, the response is the one the
\* handler computes from the request, the clock and the update configuration,
\* and a token presented as issued, for its own scope and up to its exp, is
\* not refused, whatever has become of the license since.
C37_TokenDownloadIgnoresRecords ==
  /\ [](TokenAnswered =>
          /\ gw.response \in AnswersWithoutRecords
          /\ (PresentsHeld /\ NormalizedDiffers = {} /\ gw.at <= Minted.exp)
               => gw.response.status \notin {401, 403})
  /\ [][AnswersTokenRequest =>
          /\ gw.pc = "idle"
          /\ customers' = customers /\ subscriptions' = subscriptions
          /\ calls' = calls]_vars
\* the binding was reset after the token was issued, and the token is served
C37_Witness ==
  /\ TokenAnswered /\ PresentsHeld
  /\ customers["cus_1"].metadata.license_hardware_id = <<>>
  /\ customers["cus_1"].metadata.license_reset_count > 0
  /\ gw.at <= Minted.exp
  /\ Served(gw.response)

\* ---- C38
\* the reset has completed with success
ResetCompleted == reset.pc = "done" /\ reset.status = 200
\* the step is the write of the activation call, which completes it
CallWrites == calls["p1"].pc = "update" /\ calls'["p1"].pc = "done"
\* the step is the write of the reset, which completes it
ResetWrites == reset.pc = "update" /\ reset'.pc = "done"
\* the record as the call read it already carried the write of the reset
ReadAfterReset == calls["p1"].customer.metadata.license_reset_count = 1

\* C38: a completed reset_machine is never undone by a validation that read
\* the record before the reset: whichever of one reset and one binding
\* validation of the same record completes last, the hardware id of the
\* record is then empty or was written by a validation that read the record
\* after the reset's write.
C38_ResetNotUndone ==
  /\ [][(ResetCompleted /\ CallWrites)
          => \/ customers'["cus_1"].metadata.license_hardware_id = <<>>
             \/ ReadAfterReset]_vars
  /\ [][(calls["p1"].pc = "done" /\ ResetWrites)
          => customers'["cus_1"].metadata.license_hardware_id = <<>>]_vars
\* both have completed with success: the validation's write has put back the
\* binding, the reset count and the reset time the reset had changed
C38_ResetUndone ==
  /\ ResetCompleted
  /\ calls["p1"].pc = "done" /\ calls["p1"].result.status = 200
  /\ customers["cus_1"].metadata.license_hardware_id = HwOne
  /\ customers["cus_1"].metadata.license_reset_count = 0
  /\ customers["cus_1"].metadata.license_last_reset_at = 0

\* ---- C39
\* the presented token has a further segment after body and signature
HasFurtherSegment(token) == Len(token) > 2

\* C39: verifyToken accepts a token only if the presented string consists of
\* exactly two dot-separated segments: a validly signed token with a further
\* segment appended is rejected.
C39_ExtraSegmentRejected ==
  (TokenAnswered /\ HasFurtherSegment(PresentedToken))
    => /\ ~Accepts(PresentedToken, gw.at)
       /\ ~Served(gw.response)
\* a minted token with a segment appended is accepted and the artifact handed out
C39_ExtraSegmentServed ==
  /\ TokenAnswered
  /\ PresentedToken = held \o <<GarbageSegment>>
  /\ verifyToken(PresentedToken, getUpdateSecret, gw.at) = Minted
  /\ Served(gw.response)

\* ---- C40
\* the instants the clock takes
Instants ==
  {1, ResetCooldownMs, ResetCooldownMs + 1, 2 * ResetCooldownMs, 2 * ResetCooldownMs + 1}
\* the reset requested at instant t has passed the cooldown check and writes next
Admitted(t) == reset.pc = "update" /\ reset.nowIso = t
\* the step is the write of a reset
ResetSucceeds == reset.pc = "update" /\ reset'.pc = "done"
\* the step refuses a reset for the cooldown
ResetRefused == reset.pc = "idle" /\ reset'.pc = "done" /\ reset'.status = 429

\* no reset is admitted less than the cooldown after an earlier one that was
\* admitted, wrote and was answered
C40_Spaced ==
  \A t1, t2 \in Instants :
    (t1 <= t2 /\ t2 - t1 < ResetCooldownMs)
      => [](Admitted(t1) => [](reset.pc = "idle" => []~Admitted(t2)))
\* each successful reset clears the hardware id and adds one to the count
C40_ClearsAndCounts ==
  [][ResetSucceeds =>
       /\ customers'["cus_1"].metadata.license_hardware_id = <<>>
       /\ customers'["cus_1"].metadata.license_reset_count
            = customers["cus_1"].metadata.license_reset_count + 1]_vars
\* a refused reset leaves the record unchanged
C40_RefusedChangesNothing == [][ResetRefused => customers' = customers]_vars

\* C40: for one license record any two successful reset_machine actions that
\* do not overlap are at least 10 minutes apart: a reset requested less than
\* 10 minutes after the previous successful one is refused with 429 and
\* leaves the record unchanged, and each successful reset clears the hardware
\* id and increases the reset count by exactly 1.
C40_ResetsTenMinutesApart ==
  /\ C40_Spaced
  /\ C40_ClearsAndCounts
  /\ C40_RefusedChangesNothing
\* a reset has just succeeded and the record carries no reset time, within the
\* cooldown of the first instant: the next request passes the cooldown check
C40_CooldownForgotten ==
  /\ ResetCompleted
  /\ customers["cus_1"].metadata.license_last_reset_at = 0
  /\ now < 1 + ResetCooldownMs

====
